---- MODULE Spec2Model ----
(***************************************************************************)
(* A model of doris::SegmentReader (be/src/olap/rowset/segment_reader.cpp):*)
(* the row-group pruning engine (_pick_row_groups), the block scan state   *)
(* machine (seek_to_block / get_block) and the index cache loader          *)
(* (_load_index / ~SegmentReader).                                         *)
(***************************************************************************)
EXTENDS Integers, Sequences, FiniteSets, TLC

----------------------------------------------------------------------------
(* Bounds of the model.                                                    *)

\* largest number of blocks of a segment under Spec
MaxBlocks == 3
\* rows of a full block (_num_rows_in_block)
RowsPerBlock == 2
\* largest number of delete conditions the delete handler holds
MaxConds == 2
\* seeks of a column reader that fail in one run
MaxSeekFailures == 1
\* number of blocks of the segment under SpecBloom, beyond the threshold
BloomExtraBlocks == 1
\* seek_to_block calls the driver makes in one run of SpecRescan
MaxRescans == 2
\* largest number of blocks of a segment under SpecRescan
RescanBlocks == 2
\* entries the shared cache evicts in one run of SpecCache
MaxEvictions == 1
\* largest number of streams of a segment header under SpecStreams
MaxStreams == 3

----------------------------------------------------------------------------
(* Program constants.                                                      *)

MIN_FILTER_BLOCK_NUM == 10

\* enum DelCondSatisfied: the byte values of the disposition array
\* (Excluded, Include, RequiresRowFilter)
DEL_SATISFIED == 0
DEL_NOT_SATISFIED == 1
DEL_PARTIAL_SATISFIED == 2

\* the comparison of line 502 with <= in the place of <
u32_less_or_equal(a, b) == IF (a < 0) = (b < 0) THEN a <= b ELSE b < 0

\* uint32_t values (_remain_block): a negative number v stands for 2^32 + v,
\* the value an unsigned subtraction below zero wraps to
u32_less(a, b) == IF (a < 0) = (b < 0) THEN a < b ELSE b < 0

NULL == "nullptr"
\* _include_blocks == nullptr: no disposition array
NoArray == <<>>
OLAP_SUCCESS == "OLAP_SUCCESS"
OLAP_ERR_INPUT_PARAMETER_ERROR == "OLAP_ERR_INPUT_PARAMETER_ERROR"
OLAP_ERR_COLUMN_STREAM_EOF == "OLAP_ERR_COLUMN_STREAM_EOF"
OLAP_ERR_DATA_EOF == "OLAP_ERR_DATA_EOF"
OLAP_ERR_COLUMN_SEEK_ERROR == "OLAP_ERR_COLUMN_SEEK_ERROR"
OLAP_ERR_OTHER == "OLAP_ERR_OTHER"
OLAP_ERR_MALLOC_ERROR == "OLAP_ERR_MALLOC_ERROR"
OLAP_ERR_FILE_FORMAT_ERROR == "OLAP_ERR_FILE_FORMAT_ERROR"
OLAP_ERR_PARSE_PROTOBUF_ERROR == "OLAP_ERR_PARSE_PROTOBUF_ERROR"

\* the version of the column data format this build writes, and the
\* compression kinds of a header
CURRENT_COLUMN_DATA_VERSION == 1
COMPRESS_NONE == "COMPRESS_NONE"
COMPRESS_LZO == "COMPRESS_LZO"
COMPRESS_LZ4 == "COMPRESS_LZ4"

\* the header of a segment file this build wrote
column_data_header ==
    [magic_string |-> "COLUMN DATA",
     version |-> CURRENT_COLUMN_DATA_VERSION,
     compress_kind |-> COMPRESS_LZ4]

Min(a, b) == IF a <= b THEN a ELSE b
Max(a, b) == IF a >= b THEN a ELSE b

----------------------------------------------------------------------------
(* The schema the engine is opened with: table column ids 1..4.            *)
(* Columns 1 and 2 are key columns stored in the segment, column 3 is a    *)
(* value-aggregated column stored in the segment, column 4 was added by a  *)
(* schema change after the segment was written.                            *)

TableColumns == {1, 2, 3, 4}

\* _tablet_id_to_unique_id_map
tablet_id_to_unique_id(table_column_id) == table_column_id + 10

\* the unique ids that have a segment-local id (_unique_id_to_segment_id_map)
unique_id_to_segment_id_map == {11, 12, 13}

\* _get_aggregation_by_index(i) == OLAP_FIELD_AGGREGATION_NONE
aggregation_none(table_column_id) == table_column_id \in {1, 2, 4}

\* the column sets a delete condition may carry (del_cond->columns())
DelCondColumns == {{}, {4}, {1, 4}, {1, 2}}

\* _segment_group->version().first, and the filter_version of the delete
\* conditions a handler may hold
segment_version == 2
FilterVersions == {segment_version - 1, segment_version, segment_version + 1}

\* lines 384-385: the locals of one pass of the block loop, with the calls of
\* del_eval the pass has made (column and result)
no_flags ==
    [del_partial_satisfied |-> FALSE, del_not_satisfied |-> FALSE,
     del_evals |-> {}]

----------------------------------------------------------------------------
VARIABLES
    \* the segment and the constructor's arguments
    block_count,            \* _block_count, as _load_index left it
    number_of_rows,         \* _header_message().number_of_rows()
    conditions,             \* table column ids of _conditions->columns()
    load_bf_columns,        \* _load_bf_columns
    delete_status,          \* _delete_status
    delete_handler,         \* get_delete_conditions() of _delete_handler when the
                            \* run fixes them in advance, <<>> when the steps
                            \* draw them
    batch_limit,            \* batch->limit() of the batch the driver reads into
    file_header,            \* _header_message(): magic_string, version and
                            \* compress_kind of the segment file
    \* the engine
    _include_blocks,
    _remain_block,
    _end_block,
    _eof,
    _next_block_id,
    _current_block_id,
    _need_to_seek_block,
    _without_filter,
    _is_data_loaded,
    stats,                  \* OlapReaderStatistics
    \* the call in progress
    pc,
    first_block,
    last_block,
    cond_index,             \* delete conditions consumed by the loop of line 373
    del_columns,            \* columns of the delete condition being applied
    filter_version,         \* filter_version of that condition, 0 without one
    del_flags,              \* locals of the block loop of lines 378-426
    column,                 \* predicate column being applied (lines 470, 509)
    j,                      \* block cursor of the loops of lines 378, 483, 522
    \* what the caller sees
    op,
    res,
    next_block_out,
    eof_out,
    batch,
    seek_res,               \* status _seek_to_block_directly returned last
    vector_res,             \* status next_vector of the readers returned last
    \* history of the run
    loaded,                 \* the loads of this scan: the block get_block was
                            \* called for, the block the readers stood at,
                            \* the size and the status of the batch
    seeks_left,
    seek_failures,          \* seeks of a column reader that have failed
    uninit_read,            \* an uninitialized member has been read
    oob_access,             \* memory outside _include_blocks has been touched
    \* the index cache loader of each engine that opens the segment file
    e_pc,                   \* where the engine is in init, ~SegmentReader
    use_cache,              \* the argument of init
    is_using_cache,         \* the parameter of _load_index, which it assigns
    stream_index,           \* loop variable of _load_index
    cache_handle_index,     \* local of _load_index
    stream_buffer,          \* local of _load_index
    _cache_handle,
    _indices,
    _bloom_filters,
    load_res,               \* what init returned
    _block_count,           \* per engine, as _load_index sets it
    release_index,          \* position of the loop of lines 80-84
    \* what the engines share
    lru_cache,              \* the entries of the cache; a handle is an index
    heap,                   \* the index stream buffers allocated so far
    index_readers,          \* the index reader objects created so far
    evictions,
    \* history of the index loading
    index_loads,            \* per engine: stream, buffer and handle it got
    released,               \* per engine: the handles it has released
    \* the stream locator: the two passes over the header's stream list
    _header_length,
    header_message,         \* _header_message().stream_info(): column unique
                            \* id, kind and length of every stream, in order
    _include_columns,       \* unique ids of the columns to read
    _include_bf_columns,    \* unique ids of the columns with bloom filters
    index_pass,             \* the loop of _load_index: status, and offset and
                            \* decision at every stream it came to
    data_pass,              \* the same of the loop of _read_all_data_streams
    \* the data streams and the column readers
    batch_columns,          \* batch->columns(), the columns the driver reads,
                            \* in the order of the vector
    _streams,               \* the columns whose data streams are built
    _column_readers,        \* per column with a reader: the row of the
                            \* column the reader stands at
    seek_calls,             \* the calls of ColumnReader::seek of the last
                            \* _seek_to_block_directly: column and block
    creations               \* runs of _create_reader that have succeeded

engineVars == <<_include_blocks, _remain_block, _end_block, _eof, _next_block_id,
                _current_block_id, _need_to_seek_block, _without_filter,
                _is_data_loaded, stats>>
segmentVars == <<block_count, number_of_rows, conditions, load_bf_columns,
                 delete_status, delete_handler, batch_limit, file_header>>
loopVars == <<first_block, last_block, cond_index, del_columns,
              filter_version, del_flags,
              column, j>>
callVars == <<op, res, next_block_out, eof_out, batch, seek_res, vector_res>>
historyVars == <<loaded, seeks_left, seek_failures, uninit_read, oob_access>>

scanVars == <<segmentVars, engineVars, pc, loopVars, callVars, historyVars>>
loaderVars == <<e_pc, use_cache, is_using_cache, stream_index,
                cache_handle_index, stream_buffer, _cache_handle, _indices,
                _bloom_filters, load_res, release_index, _block_count>>
cacheVars == <<loaderVars, lru_cache, heap, index_readers, evictions,
               index_loads, released>>

locatorVars == <<_header_length, header_message, _include_columns,
                 _include_bf_columns, index_pass, data_pass>>

readerVars == <<batch_columns, _streams, _column_readers, seek_calls,
                creations>>

vars == <<scanVars, cacheVars, locatorVars, readerVars>>

\* what a member holds that the constructor leaves uninitialized: an integer
\* no block id or counter of the model takes, and a flag that is no boolean
Uninit == -99
UninitFlag == "uninitialized"

----------------------------------------------------------------------------
(* Pure helpers of the scan.                                               *)

\* lines 419-424 with the first branch taken for every block
filtered_rows_full_block(block_id) == RowsPerBlock

\* rows of block block_id as lines 419-424, 492-497 and 530-535 count them
filtered_rows(block_id) ==
    IF block_id < block_count - 1
    THEN RowsPerBlock
    ELSE number_of_rows - block_id * RowsPerBlock

\* the while loop of _seek_to_block: skip forward over DEL_SATISFIED blocks
RECURSIVE skip_filtered(_, _, _)
skip_filtered(include_blocks, end_block, block_id) ==
    IF block_id <= end_block /\ include_blocks[block_id] = DEL_SATISFIED
    THEN skip_filtered(include_blocks, end_block, block_id + 1)
    ELSE block_id

\* _seek_to_block without the loop over the DEL_SATISFIED blocks
seek_to_block_id_unskipped(include_blocks, end_block, eof, block_id, without) ==
    [next_block_id |-> block_id,
     eof |-> IF block_id > end_block THEN TRUE ELSE eof]

\* get_block that goes on from the block it has read
block_after_unmoved(block_id) == block_id

\* line 308: the block get_block goes on from, _next_block_id + 1
block_after(block_id) == block_id + 1

\* SegmentReader::_seek_to_block: the new (_next_block_id, _eof)
seek_to_block_id(include_blocks, end_block, eof, block_id, without) ==
    LET id == IF include_blocks # NoArray /\ ~without
              THEN skip_filtered(include_blocks, end_block, block_id)
              ELSE block_id
    IN  [next_block_id |-> id,
         eof |-> IF id > end_block THEN TRUE ELSE eof]

----------------------------------------------------------------------------
(* seek_to_block                                                           *)

\* seek_to_block that leaves the next get_block free not to seek
need_to_seek_block_unforced == FALSE

\* line 281: _need_to_seek_block = true
need_to_seek_block_at_scan_start == TRUE

\* lines 270-283 of seek_to_block: position on the first block to read,
\* report it, force the next get_block to seek
seek_to_block_return(include_blocks, end_block, first, without) ==
    LET s == seek_to_block_id(include_blocks, end_block, FALSE, first, without)
    IN  /\ _next_block_id' = s.next_block_id
        /\ _eof' = s.eof
        /\ next_block_out' = s.next_block_id
        /\ eof_out' = s.eof
        /\ _need_to_seek_block' = need_to_seek_block_at_scan_start
        /\ res' = OLAP_SUCCESS
        /\ loaded' = <<>>
        /\ cond_index' = 0
        /\ del_columns' = {}
        /\ filter_version' = 0
        /\ del_flags' = no_flags
        /\ column' = 0
        /\ j' = 0
        /\ pc' = "scan"

\* SegmentReader::_init_include_blocks: memset(_include_blocks, 0, _block_count)
\* then memset(_include_blocks + first_block, 1, _remain_block). The second
\* memset writes past the array when first + remain > _block_count: the cells
\* from _block_count on are the bytes behind the array.
init_include_blocks(first, remain) ==
    [b \in 0 .. Max(block_count, first + remain) - 1 |->
        IF first <= b /\ b < first + remain THEN DEL_NOT_SATISFIED
        ELSE IF b < block_count THEN DEL_SATISFIED
        ELSE Uninit]

\* _pick_row_groups that takes any range
pick_row_groups_any_range(first, last) == FALSE

\* line 450 of _pick_row_groups: first_block > last_block
pick_row_groups_invalid(first, last) == first > last

\* _used_columns: the columns the engine was constructed to read, which are
\* those of the batches the driver reads into
used_columns == {batch_columns[i] : i \in DOMAIN batch_columns}

\* SegmentReader::_create_reader: a reader for each of the columns, standing
\* at the first row of the column
create_reader(columns) == [cid \in columns |-> 0]

\* seek_to_block that does not record the materialization
is_data_loaded_unrecorded(data_loaded, materialized) == data_loaded

\* lines 234-249: the flag after the block that materializes the streams and
\* readers, which line 248 sets when both were built
is_data_loaded(data_loaded, materialized) == data_loaded \/ materialized

\* SegmentReader::seek_to_block up to the call of _pick_delete_row_groups
\* (lines 234-269 with 450-461), and the whole call when filtering is off.
\*   materialized: _read_all_data_streams and _create_reader succeed
\*   allocated:    new uint8_t[_block_count] succeeds
\*   overflow:     what writing behind the array does
seek_to_block(first, last, without, materialized, allocated, overflow) ==
    /\ pc \in {"init", "scan"}
    /\ seeks_left > 0
    /\ seeks_left' = seeks_left - 1
    /\ op' = "seek_to_block"
    /\ first_block' = first
    /\ last_block' = last
    /\ UNCHANGED <<segmentVars, stats, _current_block_id, batch, seek_res,
                   vector_res,
                   seek_failures, uninit_read, cacheVars,
                   locatorVars, batch_columns, seek_calls>>
    /\ IF _is_data_loaded
       THEN UNCHANGED <<_streams, _column_readers, creations>>
       ELSE IF materialized
       THEN /\ _streams' = used_columns
            /\ _column_readers' = create_reader(used_columns)
            /\ creations' = creations + 1
       ELSE \* _reset_readers has cleared both; some streams are built, or
            \* all streams and some readers
            /\ creations' = creations
            /\ \E built \in (SUBSET used_columns) \ {used_columns} :
                   \/ /\ _streams' = built
                      /\ _column_readers' = create_reader({})
                   \/ /\ _streams' = used_columns
                      /\ _column_readers' = create_reader(built)
    /\ IF ~_is_data_loaded /\ ~materialized
       THEN \* _reset_readers ran, then the data streams or readers failed
            /\ _eof' = FALSE
            /\ res' = OLAP_ERR_MALLOC_ERROR
            /\ pc' = "init"
            /\ UNCHANGED <<_include_blocks, _remain_block, _end_block,
                           _next_block_id, _need_to_seek_block, _without_filter,
                           _is_data_loaded, next_block_out, eof_out, loaded,
                           cond_index, del_columns, filter_version, del_flags,
                           column, j,
                           oob_access>>
       ELSE
            /\ _is_data_loaded' = is_data_loaded(_is_data_loaded, materialized)
            /\ _end_block' = IF last >= block_count THEN block_count - 1 ELSE last
            /\ _without_filter' = without
            /\ IF without
               THEN /\ _include_blocks' = NoArray
                    /\ UNCHANGED <<_remain_block, oob_access>>
                    /\ seek_to_block_return(NoArray, _end_block', first, TRUE)
               ELSE /\ _remain_block' = last - first + 1
                    /\ _eof' = FALSE
                    /\ cond_index' = 0
                    /\ del_columns' = {}
                    /\ filter_version' = 0
                    /\ del_flags' = no_flags
                    /\ column' = 0
                    /\ j' = first
                    /\ UNCHANGED <<_next_block_id, _need_to_seek_block,
                                   next_block_out, eof_out, loaded>>
                    /\ IF pick_row_groups_invalid(first, last)
                       THEN /\ _include_blocks' = NoArray
                            /\ res' = OLAP_ERR_INPUT_PARAMETER_ERROR
                            /\ pc' = "failed"
                            /\ UNCHANGED oob_access
                       ELSE IF ~allocated
                       THEN /\ _include_blocks' = NoArray
                            /\ res' = OLAP_ERR_MALLOC_ERROR
                            /\ pc' = "failed"
                            /\ UNCHANGED oob_access
                       ELSE IF last >= block_count /\ overflow = "crash"
                       THEN /\ _include_blocks' = NoArray
                            /\ res' = NULL
                            /\ pc' = "crashed"
                            /\ oob_access' = TRUE
                       ELSE /\ _include_blocks' =
                                   init_include_blocks(first, _remain_block')
                            /\ res' = NULL
                            /\ pc' = "del_cond"
                            /\ oob_access' = (oob_access \/ last >= block_count)

----------------------------------------------------------------------------
(* _pick_delete_row_groups                                                 *)

\* the frame of a step of _pick_row_groups: the call goes on
pick_frame ==
    UNCHANGED <<segmentVars, _end_block, _current_block_id, _without_filter,
                _is_data_loaded, first_block, last_block, op, batch, seek_res,
                vector_res,
                seeks_left, seek_failures, uninit_read, oob_access, cacheVars,
                locatorVars, readerVars>>

\* not yet returned to seek_to_block
pick_running ==
    UNCHANGED <<_eof, _next_block_id, _need_to_seek_block, res, next_block_out,
                eof_out, loaded>>

\* the columns of a delete condition that line 389 does not skip
evaluated_columns(columns) ==
    {c \in columns : tablet_id_to_unique_id(c) \in unique_id_to_segment_id_map}

\* the call of del_eval of line 393 on column c, which returned del_ret
del_eval_call(flags, c, del_ret) ==
    [flags EXCEPT !.del_evals = @ \cup {[column |-> c, del_ret |-> del_ret]}]

\* the loop of lines 386-402 without the break of line 400
RECURSIVE del_eval_columns_unbroken(_, _, _, _)
del_eval_columns_unbroken(columns, del_ret, from, flags) ==
    LET rest == {c \in columns : c >= from}
    IN  IF rest = {} THEN flags
        ELSE LET c == CHOOSE x \in rest : \A y \in rest : x <= y
                 called == del_eval_call(flags, c, del_ret[c])
             IN  IF c \notin evaluated_columns(columns)
                 THEN del_eval_columns_unbroken(columns, del_ret, c + 1, flags)
                 ELSE IF del_ret[c] = DEL_SATISFIED
                 THEN del_eval_columns_unbroken(columns, del_ret, c + 1, called)
                 ELSE IF del_ret[c] = DEL_PARTIAL_SATISFIED
                 THEN del_eval_columns_unbroken(columns, del_ret, c + 1,
                          [called EXCEPT !.del_partial_satisfied = TRUE])
                 ELSE del_eval_columns_unbroken(columns, del_ret, c + 1,
                          [called EXCEPT !.del_not_satisfied = TRUE])

\* the loop of lines 386-402 over the columns from table column id `from` on:
\* del_ret[c] is what del_eval returns for column c on the block's zone map
RECURSIVE del_eval_columns(_, _, _, _)
del_eval_columns(columns, del_ret, from, flags) ==
    LET rest == {c \in columns : c >= from}
    IN  IF rest = {} THEN flags
        ELSE LET c == CHOOSE x \in rest : \A y \in rest : x <= y
                 called == del_eval_call(flags, c, del_ret[c])
             IN  IF c \notin evaluated_columns(columns)
                 THEN del_eval_columns(columns, del_ret, c + 1, flags)
                 ELSE IF del_ret[c] = DEL_SATISFIED
                 THEN del_eval_columns(columns, del_ret, c + 1, called)
                 ELSE IF del_ret[c] = DEL_PARTIAL_SATISFIED
                 THEN del_eval_columns(columns, del_ret, c + 1,
                          [called EXCEPT !.del_partial_satisfied = TRUE])
                 ELSE [called EXCEPT !.del_not_satisfied = TRUE]

\* lines 404-425 without the test of line 407
del_disposition_reverting(columns, flags, current) ==
    IF flags.del_not_satisfied \/ Cardinality(columns) = 0
    THEN DEL_NOT_SATISFIED
    ELSE IF flags.del_partial_satisfied
    THEN DEL_PARTIAL_SATISFIED
    ELSE DEL_SATISFIED

\* lines 404-425 without the test of columns().size() of line 404
del_disposition_columns_unchecked(columns, flags, current) ==
    IF flags.del_not_satisfied
    THEN IF current = DEL_PARTIAL_SATISFIED
         THEN current
         ELSE DEL_NOT_SATISFIED
    ELSE IF flags.del_partial_satisfied
    THEN DEL_PARTIAL_SATISFIED
    ELSE DEL_SATISFIED

\* lines 404-425 without the branch of line 412
del_disposition_partial_excluded(columns, flags, current) ==
    IF flags.del_not_satisfied \/ Cardinality(columns) = 0
    THEN IF current = DEL_PARTIAL_SATISFIED
         THEN current
         ELSE DEL_NOT_SATISFIED
    ELSE DEL_SATISFIED

\* lines 404-425 with the test of line 407 applied to every outcome
del_disposition_partial_kept(columns, flags, current) ==
    IF current = DEL_PARTIAL_SATISFIED
    THEN current
    ELSE IF flags.del_not_satisfied \/ Cardinality(columns) = 0
    THEN DEL_NOT_SATISFIED
    ELSE IF flags.del_partial_satisfied
    THEN DEL_PARTIAL_SATISFIED
    ELSE DEL_SATISFIED

\* lines 404-425: the new disposition of a block that is not DEL_SATISFIED
del_disposition(columns, flags, current) ==
    IF flags.del_not_satisfied \/ Cardinality(columns) = 0
    THEN IF current = DEL_PARTIAL_SATISFIED
         THEN current
         ELSE DEL_NOT_SATISFIED
    ELSE IF flags.del_partial_satisfied
    THEN DEL_PARTIAL_SATISFIED
    ELSE DEL_SATISFIED

\* line 374 with < for <=
delete_condition_applies_from(version) == ~(version < segment_version)

\* line 374: a condition is skipped unless its filter_version is greater than
\* the first version of the segment group
delete_condition_applies(version) == ~(version <= segment_version)

\* lines 364-377: the early returns of _pick_delete_row_groups and the head of
\* the loop over the delete conditions.
\*   more:    the handler holds a condition after the cond_index consumed
\*   version: its filter_version
\*   columns: its del_cond->columns()
pick_delete_row_groups_cond(more, version, columns) ==
    /\ pc = "del_cond"
    /\ pick_frame
    /\ pick_running
    /\ UNCHANGED <<_include_blocks, _remain_block, stats, column>>
    /\ del_flags' = no_flags
    /\ IF ~more \/ delete_status = DEL_NOT_SATISFIED
       THEN /\ pc' = "zone_col"
            /\ j' = first_block
            /\ filter_version' = 0
            /\ UNCHANGED <<cond_index, del_columns>>
       ELSE /\ cond_index' = cond_index + 1
            /\ j' = first_block
            /\ filter_version' = version
            /\ IF delete_condition_applies(version)
               THEN /\ del_columns' = columns
                    /\ pc' = "del_block"
               ELSE /\ del_columns' = {}
                    /\ pc' = "del_cond"

\* one pass of the loop of lines 378-426: block j under the current condition
pick_delete_row_groups_block(del_ret) ==
    /\ pc = "del_block"
    /\ pick_frame
    /\ pick_running
    /\ UNCHANGED <<cond_index, filter_version, column>>
    /\ IF _include_blocks[j] = DEL_SATISFIED
       THEN /\ UNCHANGED <<_include_blocks, _remain_block, stats>>
            /\ del_flags' = no_flags
       ELSE LET flags == del_eval_columns(del_columns, del_ret, 0, no_flags)
                status == del_disposition(del_columns, flags,
                                          _include_blocks[j])
            IN  /\ _include_blocks' = [_include_blocks EXCEPT ![j] = status]
                /\ del_flags' = flags
                /\ IF status = DEL_SATISFIED
                   THEN /\ _remain_block' = _remain_block - 1
                        /\ stats' = [stats EXCEPT !.rows_del_filtered =
                                                    @ + filtered_rows(j)]
                   ELSE UNCHANGED <<_remain_block, stats>>
    /\ IF j < last_block
       THEN /\ j' = j + 1
            /\ pc' = "del_block"
            /\ UNCHANGED del_columns
       ELSE /\ j' = first_block
            /\ pc' = "del_cond"
            /\ del_columns' = {}

----------------------------------------------------------------------------
(* _pick_row_groups after the delete conditions                            *)

\* the predicate columns still to visit, in the order the loops visit them
columns_after(columns, c) == {x \in columns : x > c}
first_column(columns) == CHOOSE x \in columns : \A y \in columns : x <= y

\* lines 471-481 and 510-520 without the test of the aggregation
filter_column_any_aggregation(table_column_id) ==
    tablet_id_to_unique_id(table_column_id) \in unique_id_to_segment_id_map

\* lines 471-481 and 510-520: the column's statistics may prune blocks
filter_column(table_column_id) ==
    /\ aggregation_none(table_column_id)
    /\ tablet_id_to_unique_id(table_column_id) \in unique_id_to_segment_id_map

\* lines 463-481 and 502-507: the return when there are no predicates, the
\* head of the loop over _conditions->columns(), and after its last column
\* the test of _remain_block against MIN_FILTER_BLOCK_NUM
pick_row_groups_column ==
    /\ pc = "zone_col"
    /\ pick_frame
    /\ UNCHANGED <<_include_blocks, _remain_block, stats>>
    /\ IF conditions = {}
       THEN seek_to_block_return(_include_blocks, _end_block, first_block,
                                 _without_filter)
       ELSE IF columns_after(conditions, column) # {}
       THEN LET i == first_column(columns_after(conditions, column))
            IN  /\ column' = i
                /\ j' = first_block
                /\ pc' = IF filter_column(i) THEN "zone_block" ELSE "zone_col"
                /\ pick_running
                /\ UNCHANGED <<cond_index, del_columns, filter_version,
                              del_flags>>
       ELSE IF u32_less(_remain_block, MIN_FILTER_BLOCK_NUM)
       THEN seek_to_block_return(_include_blocks, _end_block, first_block,
                                 _without_filter)
       ELSE /\ column' = 0
            /\ j' = first_block
            /\ pc' = "bloom_col"
            /\ pick_running
            /\ UNCHANGED <<cond_index, del_columns, filter_version,
                              del_flags>>

\* lines 484-498 without the decrement of line 490
filter_block_uncounted(eval, counter) ==
    IF _include_blocks[j] = DEL_SATISFIED \/ eval
    THEN UNCHANGED <<_include_blocks, _remain_block, stats>>
    ELSE /\ _include_blocks' = [_include_blocks EXCEPT ![j] = DEL_SATISFIED]
         /\ UNCHANGED _remain_block
         /\ stats' = [stats EXCEPT ![counter] = @ + filtered_rows(j)]

\* lines 484-498 and 523-536: a block whose statistic or bloom filter shows
\* that the predicate matches no row is excluded
filter_block(eval, counter) ==
    IF _include_blocks[j] = DEL_SATISFIED \/ eval
    THEN UNCHANGED <<_include_blocks, _remain_block, stats>>
    ELSE /\ _include_blocks' = [_include_blocks EXCEPT ![j] = DEL_SATISFIED]
         /\ _remain_block' = _remain_block - 1
         /\ stats' = [stats EXCEPT ![counter] = @ + filtered_rows(j)]

\* one pass of the loop of lines 483-499: eval is what the predicate of the
\* column returns on the zone map of block j
pick_row_groups_block(eval) ==
    /\ pc = "zone_block"
    /\ pick_frame
    /\ pick_running
    /\ UNCHANGED <<cond_index, del_columns, filter_version, del_flags,
                   column>>
    /\ filter_block(eval, "rows_stats_filtered")
    /\ IF j < last_block
       THEN /\ j' = j + 1
            /\ pc' = "zone_block"
       ELSE /\ j' = first_block
            /\ pc' = "zone_col"

\* lines 509-521 and 540-542: the head of the loop over _load_bf_columns, and
\* the return after its last column
pick_row_groups_bf_column ==
    /\ pc = "bloom_col"
    /\ pick_frame
    /\ UNCHANGED <<_include_blocks, _remain_block, stats>>
    /\ IF columns_after(load_bf_columns, column) # {}
       THEN LET i == first_column(columns_after(load_bf_columns, column))
            IN  /\ column' = i
                /\ j' = first_block
                /\ pc' = IF filter_column(i) THEN "bloom_block" ELSE "bloom_col"
                /\ pick_running
                /\ UNCHANGED <<cond_index, del_columns, filter_version,
                              del_flags>>
       ELSE seek_to_block_return(_include_blocks, _end_block, first_block,
                                 _without_filter)

\* one pass of the loop of lines 522-537: eval is what the predicate of the
\* column returns on the bloom filter of block j
pick_row_groups_bf_block(eval) ==
    /\ pc = "bloom_block"
    /\ pick_frame
    /\ pick_running
    /\ UNCHANGED <<cond_index, del_columns, filter_version, del_flags,
                   column>>
    /\ filter_block(eval, "rows_stats_filtered")
    /\ IF j < last_block
       THEN /\ j' = j + 1
            /\ pc' = "bloom_block"
       ELSE /\ j' = first_block
            /\ pc' = "bloom_col"

----------------------------------------------------------------------------
(* get_block                                                               *)

\* _indices.count(unique_column_id) != 0: _load_index has loaded a row index
\* for the column, which it does for the columns the segment holds
indices_count(unique_column_id) ==
    unique_column_id \in unique_id_to_segment_id_map

\* lines 793-799 without the test of _column_indices[cid]
column_indices_unchecked(cid) == TRUE

\* lines 778-780 and 796: _column_indices[cid] is not nullptr
column_indices(cid) == indices_count(tablet_id_to_unique_id(cid))

\* ColumnReader::seek to the position the row index holds for the block: the
\* first row of the block
seek_position(block_id) == block_id * RowsPerBlock

\* the loop of lines 793-819 over the columns of the batch from position i
\* on: statuses[cid] is what the seek of the reader of column cid returns
RECURSIVE seek_columns(_, _, _, _, _)
seek_columns(i, block_id, statuses, readers, calls) ==
    IF i > Len(batch_columns)
    THEN [status |-> OLAP_SUCCESS, readers |-> readers, calls |-> calls]
    ELSE LET cid == batch_columns[i]
             call == [cid |-> cid, block_id |-> block_id]
         IN  IF ~column_indices(cid)
             THEN seek_columns(i + 1, block_id, statuses, readers, calls)
             ELSE IF statuses[cid] # OLAP_SUCCESS
             THEN [status |-> statuses[cid], readers |-> readers,
                   calls |-> Append(calls, call)]
             ELSE seek_columns(i + 1, block_id, statuses,
                               [readers EXCEPT ![cid] = seek_position(block_id)],
                               Append(calls, call))

\* SegmentReader::_seek_to_block_directly: statuses is what the seeks of the
\* column readers return
seek_to_block_directly(block_id, statuses) ==
    IF ~_need_to_seek_block /\ block_id = _current_block_id
    THEN [res |-> OLAP_SUCCESS, current_block_id |-> _current_block_id,
          need_to_seek_block |-> _need_to_seek_block,
          readers |-> _column_readers, calls |-> <<>>]
    ELSE LET sought == seek_columns(1, block_id, statuses, _column_readers,
                                    <<>>)
         IN  IF sought.status = OLAP_ERR_COLUMN_STREAM_EOF
             THEN [res |-> OLAP_ERR_DATA_EOF,
                   current_block_id |-> _current_block_id,
                   need_to_seek_block |-> _need_to_seek_block,
                   readers |-> sought.readers, calls |-> sought.calls]
             ELSE IF sought.status # OLAP_SUCCESS
             THEN [res |-> OLAP_ERR_COLUMN_SEEK_ERROR,
                   current_block_id |-> _current_block_id,
                   need_to_seek_block |-> _need_to_seek_block,
                   readers |-> sought.readers, calls |-> sought.calls]
             ELSE [res |-> OLAP_SUCCESS, current_block_id |-> block_id,
                   need_to_seek_block |-> FALSE,
                   readers |-> sought.readers, calls |-> sought.calls]

\* line 878 with every read taken for a full block
full_block_read_always(size) == TRUE

\* line 878: the read was of all the rows of a block, so the readers stand at
\* the first row of the next block
full_block_read(size) == size = RowsPerBlock

\* ColumnReader::next_vector of every column of the batch: the reader moves
\* on by the rows it has read
next_vector(readers, cids, size) ==
    [cid \in DOMAIN readers |->
        IF cid \in cids THEN readers[cid] + size ELSE readers[cid]]

\* lines 295-300: the rows get_block asks the readers for
num_rows_load(current_block_id) ==
    IF current_block_id = block_count - 1
    THEN Min(batch_limit, number_of_rows - RowsPerBlock * current_block_id)
    ELSE batch_limit

\* get_block that counts a block load before it tests _eof
get_block_eof_counted ==
    /\ eof_out' = TRUE
    /\ res' = OLAP_SUCCESS
    /\ pc' = "scan"
    /\ stats' = [stats EXCEPT !.blocks_load = @ + 1]
    /\ UNCHANGED <<_eof, _next_block_id, _current_block_id, _need_to_seek_block,
                   next_block_out, batch, seek_res, vector_res, loaded,
                   seek_failures,
                   uninit_read, oob_access, _column_readers,
                   seek_calls>>

\* lines 287-290 of get_block: the scan is over, only eof is reported
get_block_eof ==
    /\ eof_out' = TRUE
    /\ res' = OLAP_SUCCESS
    /\ pc' = "scan"
    /\ UNCHANGED <<_eof, _next_block_id, _current_block_id, _need_to_seek_block,
                   stats, next_block_out, batch, seek_res, vector_res, loaded,
                   seek_failures,
                   uninit_read, oob_access, _column_readers,
                   seek_calls>>

\* lines 871-875 of _load_to_vectorized_row_batch: the status the batch is
\* tagged with; junk is the byte read when current_block_id is no index of
\* the array
block_status(current_block_id, junk) ==
    IF _include_blocks # NoArray
    THEN IF /\ current_block_id \in DOMAIN _include_blocks
            /\ _include_blocks[current_block_id] # Uninit
         THEN _include_blocks[current_block_id]
         ELSE junk
    ELSE DEL_PARTIAL_SATISFIED

\* _load_to_vectorized_row_batch that goes on whatever next_vector returns
next_vector_unchecked(vector) == FALSE

\* lines 863-868 and 303-307: next_vector of a column reader has failed
next_vector_failed(vector) == vector # OLAP_SUCCESS

\* lines 292-312 of get_block with _load_to_vectorized_row_batch.
\*   statuses: what the seek of each column reader returns
\*   vector:  what next_vector returns
\*   garbage: the value an uninitialized _current_block_id holds
\*   junk:    the byte read outside _include_blocks
get_block_load(statuses, vector, garbage, junk) ==
    LET sought == seek_to_block_directly(_next_block_id, statuses)
        current == IF sought.current_block_id = Uninit
                   THEN garbage
                   ELSE sought.current_block_id
        size == num_rows_load(current)
        tag == block_status(current, junk)
        next == seek_to_block_id(_include_blocks, _end_block, _eof,
                                 block_after(_next_block_id), _without_filter)
    IN  /\ seek_res' = sought.res
        /\ seek_calls' = sought.calls
        /\ vector_res' = vector
        /\ seek_failures' = IF sought.res = OLAP_SUCCESS
                            THEN seek_failures
                            ELSE seek_failures + 1
        /\ uninit_read' = (uninit_read \/ sought.current_block_id = Uninit)
        /\ IF next_vector_failed(vector)
           THEN /\ res' = vector
                /\ pc' = "failed"
                /\ _current_block_id' = current
                /\ _need_to_seek_block' = sought.need_to_seek_block
                /\ _column_readers' = sought.readers
                /\ UNCHANGED <<_eof, _next_block_id, stats, next_block_out,
                               eof_out, batch, loaded, oob_access>>
           ELSE /\ batch' = [size |-> size, block_status |-> tag]
                /\ oob_access' = (oob_access
                                  \/ (/\ _include_blocks # NoArray
                                      /\ current \notin DOMAIN _include_blocks))
                /\ _column_readers' = next_vector(sought.readers,
                                                  used_columns, size)
                /\ _current_block_id' = IF full_block_read(size)
                                        THEN current + 1
                                        ELSE current
                /\ _need_to_seek_block' = IF full_block_read(size)
                                          THEN sought.need_to_seek_block
                                          ELSE TRUE
                /\ stats' = [stats EXCEPT !.blocks_load = @ + 1,
                                          !.raw_rows_read = @ + size]
                /\ loaded' = Append(loaded, [block |-> _next_block_id,
                                             from |-> current,
                                             size |-> size,
                                             block_status |-> tag])
                /\ _next_block_id' = next.next_block_id
                /\ _eof' = next.eof
                /\ next_block_out' = next.next_block_id
                /\ eof_out' = next.eof
                /\ res' = OLAP_SUCCESS
                /\ pc' = "scan"

\* SegmentReader::get_block
get_block(statuses, vector, garbage, junk) ==
    /\ pc = "scan"
    /\ op' = "get_block"
    /\ UNCHANGED <<segmentVars, loopVars, seeks_left, _include_blocks,
                   _remain_block, _end_block, _without_filter, _is_data_loaded,
                   cacheVars,
                   locatorVars, batch_columns, _streams, creations>>
    /\ IF _eof
       THEN get_block_eof
       ELSE get_block_load(statuses, vector, garbage, junk)

----------------------------------------------------------------------------
(* The index cache loader (_load_index) and ~SegmentReader: two engines    *)
(* open the same segment file and share one cache.                         *)

Engines == {1, 2}

\* _file_handler.file_name() of the engine
file_name(e) == "segment.dat"

ROW_INDEX == "ROW_INDEX"
BLOOM_FILTER == "BLOOM_FILTER"

\* _header_message().stream_info(): the index streams of the segment file;
\* the column of the second one is not used by the engine
stream_info ==
    <<[column_unique_id |-> 11, kind |-> ROW_INDEX, length |-> 100],
      [column_unique_id |-> 14, kind |-> ROW_INDEX, length |-> 200],
      [column_unique_id |-> 11, kind |-> BLOOM_FILTER, length |-> 150]>>

\* the bytes read_all delivers for the stream at stream_offset of the file
stream_bytes(file, index) == <<file, index>>

\* SegmentReader::_is_column_included, _is_bf_column_included
is_column_included(unique_column_id) ==
    unique_column_id \in _include_columns
is_bf_column_included(unique_column_id) ==
    unique_column_id \in _include_bf_columns

\* lines 593-603: _load_index goes on to load the stream
load_index_needed(message) ==
    /\ message.column_unique_id \in unique_id_to_segment_id_map
    /\ \/ /\ is_column_included(message.column_unique_id)
          /\ message.kind = ROW_INDEX
       \/ /\ is_bf_column_included(message.column_unique_id)
          /\ message.kind = BLOOM_FILTER

\* lines 593-603: the streams _load_index does not skip
stream_included(index) == load_index_needed(stream_info[index])

\* the loop header of line 585 with the continues of lines 594 and 602: the
\* first stream from index on that is loaded, Len(stream_info) + 1 if none
RECURSIVE next_stream(_)
next_stream(index) ==
    IF index > Len(stream_info) \/ stream_included(index)
    THEN index
    ELSE next_stream(index + 1)

get_included_row_index_stream_num ==
    Cardinality({index \in DOMAIN stream_info : stream_included(index)})

\* SegmentReader::_construct_index_stream_key without the stream kind
construct_index_stream_key_kindless(file, unique_column_id, kind) ==
    <<file, unique_column_id>>

\* SegmentReader::_construct_index_stream_key
construct_index_stream_key(file, unique_column_id, kind) ==
    <<file, unique_column_id, kind>>

\* SegmentReader::_delete_cached_index_stream: the deleter the cache calls on
\* the buffer of an entry nobody refers to any more
delete_cached_index_stream(buffers, value) ==
    [buffers EXCEPT ![value].freed = @ + 1]

\* Cache::lookup: the entry of the key, nullptr (0) when there is none
cache_lookup(cache, key) ==
    IF \E h \in DOMAIN cache : cache[h].in_table /\ cache[h].key = key
    THEN CHOOSE h \in DOMAIN cache : cache[h].in_table /\ cache[h].key = key
    ELSE 0

\* the cache drops its own reference to the entries of hs
cache_erase(cache, hs) ==
    [h \in DOMAIN cache |->
        IF h \in hs
        THEN [cache[h] EXCEPT !.in_table = FALSE, !.refs = @ - 1]
        ELSE cache[h]]

\* the buffers of the entries of hs that nobody refers to are deleted
RECURSIVE cache_free(_, _, _)
cache_free(cache, buffers, hs) ==
    IF hs = {} THEN buffers
    ELSE LET h == CHOOSE x \in hs : TRUE
         IN  cache_free(cache,
                        IF cache[h].refs = 0
                        THEN delete_cached_index_stream(buffers, cache[h].value)
                        ELSE buffers,
                        hs \ {h})

\* Cache::insert: the entry replaces the one the key had in the table; the
\* cache and the handle returned refer to it
cache_insert(cache, key, value) ==
    LET old == {h \in DOMAIN cache : cache[h].in_table /\ cache[h].key = key}
    IN  Append(cache_erase(cache, old),
               [key |-> key, value |-> value, refs |-> 2, in_table |-> TRUE])

\* Cache::release
cache_release(cache, handle) ==
    [cache EXCEPT ![handle].refs = @ - 1]

\* std::map operator[] assignment
map_put(map, key, value) ==
    [k \in DOMAIN map \cup {key} |-> IF k = key THEN value ELSE map[k]]

\* lines 582-584: ceil(number_of_rows / num_rows_per_block)
expected_blocks == (number_of_rows + RowsPerBlock - 1) \div RowsPerBlock

\* the test of line 691 that no block count fails
block_count_unchecked(actual, expected) == FALSE

\* line 691: _block_count != expected_blocks
block_count_mismatch(actual, expected) == actual # expected

\* a return of _load_index, and of init with it
load_index_return(e, status) ==
    /\ e_pc' = [e_pc EXCEPT ![e] = IF status = OLAP_SUCCESS
                                   THEN "loaded"
                                   ELSE "failed"]
    /\ load_res' = [load_res EXCEPT ![e] = status]

\* SegmentReader::init up to the loop of _load_index (lines 192-221 and
\* 563-585).
\*   using_cache: the argument of init
\*   stream:      what stream.init() returns
load_index(e, using_cache, stream) ==
    /\ e_pc[e] = "constructed"
    /\ use_cache' = [use_cache EXCEPT ![e] = using_cache]
    /\ is_using_cache' = [is_using_cache EXCEPT ![e] = using_cache]
    /\ _cache_handle' = [_cache_handle EXCEPT ![e] =
                            [k \in 1 .. get_included_row_index_stream_num |-> 0]]
    /\ IF stream # OLAP_SUCCESS
       THEN /\ load_index_return(e, stream)
            /\ UNCHANGED <<stream_index, cache_handle_index>>
       ELSE /\ cache_handle_index' = [cache_handle_index EXCEPT ![e] = 0]
            /\ stream_index' = [stream_index EXCEPT ![e] = next_stream(1)]
            /\ IF next_stream(1) > Len(stream_info)
               THEN load_index_return(e, OLAP_SUCCESS)
               ELSE /\ e_pc' = [e_pc EXCEPT ![e] = "lookup"]
                    /\ UNCHANGED load_res
    /\ UNCHANGED <<_block_count,
                   stream_buffer, _indices, _bloom_filters, release_index,
                   lru_cache, heap, index_readers, evictions, index_loads,
                   released, scanVars,
                   locatorVars, readerVars>>

\* _check_file_version with a version test that rejects what line 109 lets
\* pass
check_file_version_strict(header) ==
    IF \/ header.magic_string # "COLUMN DATA"
       \/ header.version > CURRENT_COLUMN_DATA_VERSION
    THEN [res |-> OLAP_ERR_FILE_FORMAT_ERROR,
          higher_version |-> header.version > CURRENT_COLUMN_DATA_VERSION]
    ELSE [res |-> OLAP_SUCCESS, higher_version |-> FALSE]

\* SegmentReader::_check_file_version (lines 102-117): the status, and
\* whether the warning of lines 110-113 is logged
check_file_version(header) ==
    IF header.magic_string # "COLUMN DATA"
    THEN [res |-> OLAP_ERR_FILE_FORMAT_ERROR, higher_version |-> FALSE]
    ELSE [res |-> OLAP_SUCCESS,
          higher_version |-> header.version > CURRENT_COLUMN_DATA_VERSION]

\* SegmentReader::_load_segment_file (lines 119-148)
\*   open:   what _file_handler.open_with_cache returns
\*   mapped: _is_using_mmap is false, or StorageByteBuffer::mmap returned a
\*           buffer
load_segment_file(header, open, mapped) ==
    IF open # OLAP_SUCCESS
    THEN open
    ELSE IF check_file_version(header).res # OLAP_SUCCESS
         THEN check_file_version(header).res
         ELSE IF ~mapped
              THEN OLAP_ERR_MALLOC_ERROR
              ELSE OLAP_SUCCESS

\* the cases of the switch of lines 151-173; with_lzo: the build defines
\* DORIS_WITH_LZO
decompressors(with_lzo) ==
    {COMPRESS_NONE, COMPRESS_LZ4} \cup (IF with_lzo THEN {COMPRESS_LZO} ELSE {})

\* SegmentReader::_set_decompressor (lines 150-172), which is what
\* _set_segment_info (lines 174-187) returns
set_decompressor(header, with_lzo) ==
    IF header.compress_kind \in decompressors(with_lzo)
    THEN OLAP_SUCCESS
    ELSE OLAP_ERR_PARSE_PROTOBUF_ERROR

\* SegmentReader::init down to _pick_columns (lines 192-219); _pick_columns
\* returns OLAP_SUCCESS always (line 358)
\*   shared_buffer: StorageByteBuffer::create returned a buffer
init_segment(header, open, mapped, with_lzo, shared_buffer) ==
    IF load_segment_file(header, open, mapped) # OLAP_SUCCESS
    THEN load_segment_file(header, open, mapped)
    ELSE IF set_decompressor(header, with_lzo) # OLAP_SUCCESS
         THEN set_decompressor(header, with_lzo)
         ELSE IF ~shared_buffer
              THEN OLAP_ERR_MALLOC_ERROR
              ELSE OLAP_SUCCESS

\* SegmentReader::init (lines 189-228) on the header of the segment file
init(e, using_cache, open, mapped, with_lzo, shared_buffer, stream) ==
    IF init_segment(file_header, open, mapped, with_lzo, shared_buffer)
           = OLAP_SUCCESS
    THEN load_index(e, using_cache, stream)
    ELSE /\ e_pc[e] = "constructed"
         /\ load_index_return(e, init_segment(file_header, open, mapped,
                                              with_lzo, shared_buffer))
         /\ UNCHANGED <<use_cache, is_using_cache, stream_index,
                        cache_handle_index, stream_buffer, _cache_handle,
                        _indices, _bloom_filters, release_index, _block_count,
                        lru_cache, heap, index_readers, evictions,
                        index_loads, released, scanVars, locatorVars,
                        readerVars>>

\* lines 605-619: the key of the stream is looked up in the cache
load_index_lookup(e) ==
    /\ e_pc[e] = "lookup"
    /\ LET message == stream_info[stream_index[e]]
           key == construct_index_stream_key(file_name(e),
                      message.column_unique_id, message.kind)
           handle == cache_lookup(lru_cache, key)
       IN  /\ _cache_handle' = [_cache_handle EXCEPT
                                   ![e][cache_handle_index[e] + 1] = handle]
           /\ IF handle # 0
              THEN /\ lru_cache' = [lru_cache EXCEPT ![handle].refs = @ + 1]
                   /\ is_using_cache' = [is_using_cache EXCEPT ![e] = TRUE]
                   /\ stream_buffer' = [stream_buffer EXCEPT ![e] =
                                           lru_cache[handle].value]
                   /\ index_loads' = [index_loads EXCEPT ![e] = Append(@,
                                         [stream |-> stream_index[e],
                                          buffer |-> lru_cache[handle].value,
                                          handle |-> handle])]
                   /\ e_pc' = [e_pc EXCEPT ![e] = "reader"]
              ELSE /\ stream_buffer' = [stream_buffer EXCEPT ![e] = 0]
                   /\ e_pc' = [e_pc EXCEPT ![e] = "read"]
                   /\ UNCHANGED <<lru_cache, is_using_cache, index_loads>>
    /\ UNCHANGED <<_block_count,
                   use_cache, stream_index, cache_handle_index, _indices,
                   _bloom_filters, load_res, release_index, heap, index_readers,
                   evictions, released, scanVars,
                   locatorVars, readerVars>>

\* lines 620-648: after a miss the stream is read into a new buffer, which is
\* inserted into the cache when is_using_cache is set.
\*   allocated: new char[stream_length] succeeds
\*   read_all:  what stream.read_all returns
load_index_read(e, allocated, read_all) ==
    /\ e_pc[e] = "read"
    /\ LET message == stream_info[stream_index[e]]
           key == construct_index_stream_key(file_name(e),
                      message.column_unique_id, message.kind)
           buffer == Len(heap) + 1
           allocation == Append(heap,
                             [bytes |-> IF read_all = OLAP_SUCCESS
                                        THEN stream_bytes(file_name(e),
                                                          stream_index[e])
                                        ELSE <<>>,
                              engine |-> e, cached |-> FALSE, freed |-> 0])
           old == {h \in DOMAIN lru_cache :
                      lru_cache[h].in_table /\ lru_cache[h].key = key}
           inserted == cache_insert(lru_cache, key, buffer)
       IN  IF ~allocated
           THEN /\ load_index_return(e, OLAP_ERR_MALLOC_ERROR)
                /\ UNCHANGED <<heap, lru_cache, stream_buffer, _cache_handle,
                               index_loads>>
           ELSE /\ stream_buffer' = [stream_buffer EXCEPT ![e] = buffer]
                /\ IF read_all # OLAP_SUCCESS
                   THEN /\ heap' = allocation
                        /\ load_index_return(e, OLAP_ERR_FILE_FORMAT_ERROR)
                        /\ UNCHANGED <<lru_cache, _cache_handle, index_loads>>
                   ELSE /\ e_pc' = [e_pc EXCEPT ![e] = "reader"]
                        /\ UNCHANGED load_res
                        /\ IF is_using_cache[e]
                           THEN /\ lru_cache' = inserted
                                /\ heap' = cache_free(inserted,
                                              [allocation EXCEPT
                                                  ![buffer].cached = TRUE], old)
                                /\ _cache_handle' = [_cache_handle EXCEPT
                                      ![e][cache_handle_index[e] + 1] =
                                          Len(inserted)]
                                /\ index_loads' = [index_loads EXCEPT ![e] =
                                      Append(@, [stream |-> stream_index[e],
                                                 buffer |-> buffer,
                                                 handle |-> Len(inserted)])]
                           ELSE /\ heap' = allocation
                                /\ index_loads' = [index_loads EXCEPT ![e] =
                                      Append(@, [stream |-> stream_index[e],
                                                 buffer |-> buffer,
                                                 handle |-> 0])]
                                /\ UNCHANGED <<lru_cache, _cache_handle>>
    /\ UNCHANGED <<_block_count,
                   use_cache, is_using_cache, stream_index, cache_handle_index,
                   _indices, _bloom_filters, release_index, index_readers,
                   evictions, released, scanVars,
                   locatorVars, readerVars>>

\* lines 649-703: the index reader of the stream is created, initialized on
\* the buffer and recorded, and the number of its entries is checked.
\*   created:     new StreamIndexReader / BloomFilterIndexReader succeeds
\*   initialized: what init of the reader returns
\*   entry_count: what entry_count() of the reader returns
load_index_reader(e, created, initialized, entry_count) ==
    /\ e_pc[e] = "reader"
    /\ cache_handle_index' = [cache_handle_index EXCEPT ![e] = @ + 1]
    /\ _block_count' = IF created /\ initialized = OLAP_SUCCESS
                       THEN [_block_count EXCEPT ![e] = entry_count]
                       ELSE _block_count
    /\ LET message == stream_info[stream_index[e]]
           reader == Len(index_readers) + 1
           object == [engine |-> e, kind |-> message.kind,
                      buffer |-> stream_buffer[e],
                      is_using_cache |-> is_using_cache[e], deleted |-> 0,
                      entry_count |-> IF initialized = OLAP_SUCCESS
                                      THEN entry_count
                                      ELSE 0]
           next == next_stream(stream_index[e] + 1)
       IN  IF ~created
           THEN /\ load_index_return(e, OLAP_ERR_MALLOC_ERROR)
                /\ UNCHANGED <<index_readers, _indices, _bloom_filters,
                               stream_index>>
           ELSE /\ index_readers' = Append(index_readers, object)
                /\ IF initialized # OLAP_SUCCESS
                   THEN /\ load_index_return(e, initialized)
                        /\ UNCHANGED <<_indices, _bloom_filters, stream_index>>
                   ELSE /\ IF message.kind = ROW_INDEX
                           THEN /\ _indices' = [_indices EXCEPT ![e] =
                                      map_put(@, message.column_unique_id, reader)]
                                /\ UNCHANGED _bloom_filters
                           ELSE /\ _bloom_filters' = [_bloom_filters EXCEPT ![e] =
                                      map_put(@, message.column_unique_id, reader)]
                                /\ UNCHANGED _indices
                        /\ IF block_count_mismatch(entry_count, expected_blocks)
                           THEN /\ load_index_return(e, OLAP_ERR_FILE_FORMAT_ERROR)
                                /\ UNCHANGED stream_index
                           ELSE /\ stream_index' = [stream_index EXCEPT ![e] = next]
                                /\ IF next > Len(stream_info)
                                   THEN load_index_return(e, OLAP_SUCCESS)
                                   ELSE /\ e_pc' = [e_pc EXCEPT ![e] = "lookup"]
                                        /\ UNCHANGED load_res
    /\ UNCHANGED <<use_cache, is_using_cache, stream_buffer, _cache_handle,
                   release_index, lru_cache, heap, evictions, index_loads,
                   released, scanVars,
                   locatorVars, readerVars>>

\* ~StreamIndexReader, ~BloomFilterIndexReader: a reader that was not
\* initialized on a cached buffer deletes its buffer
delete_index_readers(buffers, readers, deleted) ==
    [b \in DOMAIN buffers |->
        IF \E r \in deleted : readers[r].buffer = b /\ ~readers[r].is_using_cache
        THEN [buffers[b] EXCEPT !.freed = @ + 1]
        ELSE buffers[b]]

\* lines 68-78 of ~SegmentReader: the readers of _indices and _bloom_filters
\* are deleted
destructor_readers(e) ==
    /\ e_pc[e] \in {"loaded", "failed"}
    /\ LET deleted == {_indices[e][u] : u \in DOMAIN _indices[e]}
                          \cup {_bloom_filters[e][u] : u \in DOMAIN _bloom_filters[e]}
       IN  /\ index_readers' = [r \in DOMAIN index_readers |->
                                   IF r \in deleted
                                   THEN [index_readers[r] EXCEPT !.deleted = @ + 1]
                                   ELSE index_readers[r]]
           /\ heap' = delete_index_readers(heap, index_readers, deleted)
    /\ release_index' = [release_index EXCEPT ![e] = 1]
    /\ e_pc' = [e_pc EXCEPT ![e] = "release"]
    /\ UNCHANGED <<_block_count,
                   use_cache, is_using_cache, stream_index, cache_handle_index,
                   stream_buffer, _cache_handle, _indices, _bloom_filters,
                   load_res, lru_cache, evictions, index_loads, released,
                   scanVars,
                   locatorVars, readerVars>>

\* the loop of lines 80-84 releases the handle at position index
\* unconditionally, and the first handle a second time
destructor_release_handle_twice(e, index) ==
    LET handle == _cache_handle[e][index]
        again == IF index = 1 /\ handle # 0 THEN <<handle, handle>> ELSE <<handle>>
        cache == IF handle = 0 THEN lru_cache
                 ELSE IF index = 1
                 THEN cache_release(cache_release(lru_cache, handle), handle)
                 ELSE cache_release(lru_cache, handle)
    IN  /\ lru_cache' = cache
        /\ heap' = IF handle = 0 THEN heap ELSE cache_free(cache, heap, {handle})
        /\ released' = IF handle = 0 THEN released
                       ELSE [released EXCEPT ![e] = @ \o again]

\* one pass of the loop of lines 80-84 of ~SegmentReader: the handle at
\* position index of _cache_handle is released unless it is nullptr
destructor_release_handle(e, index) ==
    LET handle == _cache_handle[e][index]
        cache == cache_release(lru_cache, handle)
    IN  IF handle # 0
        THEN /\ lru_cache' = cache
             /\ heap' = cache_free(cache, heap, {handle})
             /\ released' = [released EXCEPT ![e] = Append(@, handle)]
        ELSE UNCHANGED <<lru_cache, heap, released>>

\* lines 80-100 of ~SegmentReader
destructor_release(e) ==
    /\ e_pc[e] = "release"
    /\ IF release_index[e] > Len(_cache_handle[e])
       THEN /\ e_pc' = [e_pc EXCEPT ![e] = "destroyed"]
            /\ UNCHANGED <<release_index, lru_cache, heap, released>>
       ELSE /\ release_index' = [release_index EXCEPT ![e] = @ + 1]
            /\ destructor_release_handle(e, release_index[e])
            /\ UNCHANGED e_pc
    /\ UNCHANGED <<_block_count,
                   use_cache, is_using_cache, stream_index, cache_handle_index,
                   stream_buffer, _cache_handle, _indices, _bloom_filters,
                   load_res, index_readers, evictions, index_loads, scanVars,
                   locatorVars, readerVars>>

\* the cache evicts an entry: it leaves the table, and its buffer is deleted
\* once no handle refers to it
cache_evict(handle) ==
    /\ evictions < MaxEvictions
    /\ handle \in DOMAIN lru_cache
    /\ lru_cache[handle].in_table
    /\ evictions' = evictions + 1
    /\ lru_cache' = cache_erase(lru_cache, {handle})
    /\ heap' = cache_free(cache_erase(lru_cache, {handle}), heap, {handle})
    /\ UNCHANGED <<loaderVars, index_readers, index_loads, released, scanVars,
                   locatorVars, readerVars>>

\* the engines are constructed on an empty cache
InitCache ==
    /\ e_pc = [e \in Engines |-> "constructed"]
    /\ use_cache = [e \in Engines |-> FALSE]
    /\ is_using_cache = [e \in Engines |-> FALSE]
    /\ stream_index = [e \in Engines |-> 0]
    /\ cache_handle_index = [e \in Engines |-> 0]
    /\ stream_buffer = [e \in Engines |-> 0]
    /\ _cache_handle = [e \in Engines |-> <<>>]
    /\ _indices = [e \in Engines |-> <<>>]
    /\ _bloom_filters = [e \in Engines |-> <<>>]
    /\ load_res = [e \in Engines |-> NULL]
    /\ _block_count = [e \in Engines |-> 0]
    /\ release_index = [e \in Engines |-> 0]
    /\ lru_cache = <<>>
    /\ heap = <<>>
    /\ index_readers = <<>>
    /\ evictions = 0
    /\ index_loads = [e \in Engines |-> <<>>]
    /\ released = [e \in Engines |-> <<>>]

----------------------------------------------------------------------------
(* The stream locator: the loops of _load_index and _read_all_data_streams *)
(* over the stream list of the segment header.                             *)

\* a kind of stream that is neither ROW_INDEX nor BLOOM_FILTER
DATA == "DATA"

\* the increment of lines 586 and 715 that leaves the offset where it is
stream_offset_kept(stream_offset, stream_length) == stream_offset

\* the increment of the two loops (lines 586 and 715):
\* stream_offset += stream_length
stream_offset_next(stream_offset, stream_length) ==
    stream_offset + stream_length

\* lines 718-730 without the test of the kind
read_all_data_streams_needed_any_kind(message) ==
    /\ message.column_unique_id \in unique_id_to_segment_id_map
    /\ \/ message.column_unique_id \in _include_columns
       \/ message.column_unique_id \in _include_bf_columns

\* lines 718-730: _read_all_data_streams goes on to open the stream
read_all_data_streams_needed(message) ==
    /\ message.column_unique_id \in unique_id_to_segment_id_map
    /\ \/ message.column_unique_id \in _include_columns
       \/ message.column_unique_id \in _include_bf_columns
    /\ message.kind # ROW_INDEX
    /\ message.kind # BLOOM_FILTER

\* what a loop did at the stream it came to
located(index, stream_offset, needed) ==
    [stream_index |-> index, stream_offset |-> stream_offset,
     stream_length |-> header_message[index].length,
     needed |-> needed]

\* the loop of lines 585-703 of _load_index from stream index on; failing is
\* the stream at which a step of lines 605-702 returns an error, if it is
\* loaded (0: none)
RECURSIVE load_index_loop(_, _, _, _)
load_index_loop(index, stream_offset, failing, visited) ==
    IF index > Len(header_message)
    THEN [res |-> OLAP_SUCCESS, visited |-> visited]
    ELSE LET message == header_message[index]
             needed == load_index_needed(message)
             here == Append(visited, located(index, stream_offset, needed))
         IN  IF needed /\ index = failing
             THEN [res |-> OLAP_ERR_FILE_FORMAT_ERROR, visited |-> here]
             ELSE load_index_loop(index + 1,
                      stream_offset_next(stream_offset, message.length),
                      failing, here)

\* the loop of lines 714-745 of _read_all_data_streams from stream index on;
\* failing is the stream whose ReadOnlyFileStream cannot be created, if it
\* is opened (0: none)
RECURSIVE read_all_data_streams_loop(_, _, _, _)
read_all_data_streams_loop(index, stream_offset, failing, visited) ==
    IF index > Len(header_message)
    THEN [res |-> OLAP_SUCCESS, visited |-> visited]
    ELSE LET message == header_message[index]
             needed == read_all_data_streams_needed(message)
             here == Append(visited, located(index, stream_offset, needed))
         IN  IF needed /\ index = failing
             THEN [res |-> OLAP_ERR_MALLOC_ERROR, visited |-> here]
             ELSE read_all_data_streams_loop(index + 1,
                      stream_offset_next(stream_offset, message.length),
                      failing, here)

\* the offsets and decisions of SegmentReader::_load_index (lines 579-603)
locate_index_streams(failing) ==
    /\ index_pass.res = NULL
    /\ index_pass' = load_index_loop(1, _header_length, failing, <<>>)
    /\ UNCHANGED <<_header_length, header_message, _include_columns,
                   _include_bf_columns, data_pass, scanVars, cacheVars,
                   readerVars>>

\* SegmentReader::_read_all_data_streams (lines 709-748), which the first
\* seek_to_block calls once init has succeeded
locate_data_streams(failing) ==
    /\ index_pass.res = OLAP_SUCCESS
    /\ data_pass.res = NULL
    /\ data_pass' = read_all_data_streams_loop(1, _header_length, failing, <<>>)
    /\ UNCHANGED <<_header_length, header_message, _include_columns,
                   _include_bf_columns, index_pass, scanVars, cacheVars,
                   readerVars>>

\* the header and the column sets of the segment of SpecCache
InitLocator ==
    /\ _header_length = 500
    /\ header_message = stream_info
    /\ _include_columns = {11, 12}
    /\ _include_bf_columns = {11}
    /\ index_pass = [res |-> NULL, visited |-> <<>>]
    /\ data_pass = [res |-> NULL, visited |-> <<>>]

----------------------------------------------------------------------------
(* The specification of one engine scanning one segment: one seek_to_block *)
(* call and the get_block calls that follow it.                            *)

\* the predicate column sets the engine is constructed with
ConditionColumns == {{}, {1, 3, 4}}
\* the columns of the schema that carry a bloom filter
BloomFilterColumns == {1, 3, 4}

\* flags: what the two flags the constructor does not initialize may hold
InitEngineHolding(seeks, cids, flags) ==
    /\ batch_columns = cids
    /\ _streams = {}
    /\ _column_readers = create_reader({})
    /\ seek_calls = <<>>
    /\ creations = 0
    /\ _include_blocks = NoArray
    /\ _remain_block = Uninit
    /\ _end_block = -1
    /\ _eof = FALSE
    /\ _next_block_id = Uninit
    /\ _current_block_id = Uninit
    /\ _need_to_seek_block \in flags
    /\ _without_filter \in flags
    /\ _is_data_loaded = FALSE
    /\ stats = [rows_del_filtered |-> 0, rows_stats_filtered |-> 0,
                blocks_load |-> 0, raw_rows_read |-> 0]
    /\ pc = "init"
    /\ first_block = 0
    /\ last_block = 0
    /\ cond_index = 0
    /\ del_columns = {}
    /\ filter_version = 0
    /\ del_flags = no_flags
    /\ column = 0
    /\ j = 0
    /\ op = NULL
    /\ res = NULL
    /\ next_block_out = Uninit
    /\ eof_out = FALSE
    /\ batch = [size |-> Uninit, block_status |-> Uninit]
    /\ seek_res = NULL
    /\ vector_res = NULL
    /\ loaded = <<>>
    /\ seeks_left = seeks
    /\ seek_failures = 0
    /\ uninit_read = FALSE
    /\ oob_access = FALSE
    /\ InitCache

\* the engine of a driver that reads the columns cids
InitEngineWith(seeks, cids) == InitEngineHolding(seeks, cids, {UninitFlag})

\* the engine of a driver that reads column 1
InitEngine(seeks) == InitEngineWith(seeks, <<1>>)

Init ==
    /\ block_count \in 1 .. MaxBlocks
    /\ number_of_rows \in {(block_count - 1) * RowsPerBlock + 1,
                            block_count * RowsPerBlock}
    /\ conditions \in ConditionColumns
    /\ load_bf_columns = conditions \cap BloomFilterColumns
    /\ delete_status \in {DEL_NOT_SATISFIED, DEL_PARTIAL_SATISFIED}
    /\ delete_handler = <<>>
    /\ file_header = column_data_header
    /\ batch_limit \in {RowsPerBlock - 1, RowsPerBlock}
    /\ InitEngine(1)
    /\ InitLocator

SeekStatus == {OLAP_SUCCESS, OLAP_ERR_COLUMN_STREAM_EOF, OLAP_ERR_OTHER}
Dispositions == {DEL_SATISFIED, DEL_NOT_SATISFIED, DEL_PARTIAL_SATISFIED}

SeekToBlock ==
    \E first \in 0 .. block_count, last \in 0 .. block_count, without \in BOOLEAN,
       materialized \in BOOLEAN, allocated \in BOOLEAN,
       overflow \in {"continue", "crash"} :
        seek_to_block(first, last, without, materialized, allocated, overflow)

\* the handler holds no further condition, or one more with its version and
\* columns
PickDeleteCond ==
    \/ pick_delete_row_groups_cond(FALSE, 0, {})
    \/ /\ cond_index < MaxConds
       /\ \E version \in FilterVersions, columns \in DelCondColumns :
              pick_delete_row_groups_cond(TRUE, version, columns)

PickDeleteBlock ==
    \E del_ret \in [evaluated_columns(del_columns) -> Dispositions] :
        pick_delete_row_groups_block(del_ret)

PickColumn == pick_row_groups_column

PickBlock == \E eval \in BOOLEAN : pick_row_groups_block(eval)

PickBloomColumn == pick_row_groups_bf_column

PickBloomBlock == \E eval \in BOOLEAN : pick_row_groups_bf_block(eval)

GetBlock ==
    \E statuses \in [used_columns -> IF seek_failures < MaxSeekFailures
                                      THEN SeekStatus
                                      ELSE {OLAP_SUCCESS}],
       vector \in {OLAP_SUCCESS, OLAP_ERR_OTHER},
       garbage \in IF _current_block_id = Uninit THEN 0 .. block_count ELSE {0},
       junk \in IF \/ _include_blocks = NoArray
                   \/ {_next_block_id, _current_block_id}
                          \subseteq DOMAIN _include_blocks
                THEN {0}
                ELSE Dispositions :
        get_block(statuses, vector, garbage, junk)

Next ==
    \/ SeekToBlock
    \/ PickDeleteCond
    \/ PickDeleteBlock
    \/ PickColumn
    \/ PickBlock
    \/ GetBlock

Spec == Init /\ [][Next]_vars

----------------------------------------------------------------------------
(* One engine that is sought more than once: a segment without predicates  *)
(* whose delete conditions do not apply to it.                             *)

InitRescan ==
    /\ block_count \in 1 .. RescanBlocks
    /\ number_of_rows \in (block_count - 1) * RowsPerBlock + 1
                            .. block_count * RowsPerBlock
    /\ conditions = {}
    /\ load_bf_columns = {}
    /\ delete_status = DEL_NOT_SATISFIED
    /\ delete_handler = <<>>
    /\ file_header = column_data_header
    /\ batch_limit \in {RowsPerBlock - 1, RowsPerBlock}
    /\ InitEngine(MaxRescans)
    /\ InitLocator

NextRescan ==
    \/ SeekToBlock
    \/ PickDeleteCond
    \/ PickColumn
    \/ GetBlock

SpecRescan == InitRescan /\ [][NextRescan]_vars

----------------------------------------------------------------------------
(* The pruning of one seek_to_block call on a segment that has enough      *)
(* blocks for the bloom filters to be consulted. The delete conditions do  *)
(* not apply to the segment; the range leaves out at most the first and    *)
(* the last block.                                                         *)

InitBloom ==
    /\ block_count = MIN_FILTER_BLOCK_NUM + BloomExtraBlocks
    /\ number_of_rows \in {block_count * RowsPerBlock - 1,
                            block_count * RowsPerBlock}
    /\ conditions \in ConditionColumns
    /\ load_bf_columns = conditions \cap BloomFilterColumns
    /\ delete_status = DEL_NOT_SATISFIED
    /\ delete_handler = <<>>
    /\ file_header = column_data_header
    /\ batch_limit = RowsPerBlock
    /\ InitEngine(1)
    /\ InitLocator

SeekToBlockBloom ==
    \E first \in {0, 1}, last \in {block_count - 2, block_count - 1} :
        seek_to_block(first, last, FALSE, TRUE, TRUE, "continue")

NextBloom ==
    \/ SeekToBlockBloom
    \/ PickDeleteCond
    \/ PickColumn
    \/ PickBlock
    \/ PickBloomColumn
    \/ PickBloomBlock

SpecBloom == InitBloom /\ [][NextBloom]_vars

----------------------------------------------------------------------------
(* Two engines that open the same segment file and are torn down, in any   *)
(* interleaving of their steps, over one shared cache.                     *)

InitLoaders ==
    /\ number_of_rows \in {RowsPerBlock, RowsPerBlock + 1}
    /\ block_count = expected_blocks
    /\ conditions = {}
    /\ load_bf_columns = {}
    /\ delete_status = DEL_NOT_SATISFIED
    /\ delete_handler = <<>>
    /\ file_header = column_data_header
    /\ batch_limit = RowsPerBlock
    /\ InitEngine(0)
    /\ InitLocator

LoadStatus == {OLAP_SUCCESS, OLAP_ERR_OTHER}

LoadIndex ==
    \E e \in Engines, using_cache \in BOOLEAN, stream \in LoadStatus :
        load_index(e, using_cache, stream)

LoadIndexLookup == \E e \in Engines : load_index_lookup(e)

LoadIndexRead ==
    \E e \in Engines, allocated \in BOOLEAN, read_all \in LoadStatus :
        load_index_read(e, allocated, read_all)

LoadIndexReader ==
    \E e \in Engines, created \in BOOLEAN, initialized \in LoadStatus,
       entry_count \in {expected_blocks, expected_blocks + 1} :
        load_index_reader(e, created, initialized, entry_count)

DestructorReaders == \E e \in Engines : destructor_readers(e)

DestructorRelease == \E e \in Engines : destructor_release(e)

CacheEvict == \E handle \in DOMAIN lru_cache : cache_evict(handle)

\* headers: the magic string of another file type, the version after the
\* current one, a compression kind no build has a case for
FileHeaders ==
    [magic_string : {"COLUMN DATA", "COLUMN INDEX"},
     version : {CURRENT_COLUMN_DATA_VERSION, CURRENT_COLUMN_DATA_VERSION + 1},
     compress_kind : {COMPRESS_LZO, COMPRESS_LZ4, "COMPRESS_ZLIB"}]

\* two engines constructed on a segment file with any of the headers
InitHeaders ==
    /\ number_of_rows = RowsPerBlock
    /\ block_count = expected_blocks
    /\ conditions = {}
    /\ load_bf_columns = {}
    /\ delete_status = DEL_NOT_SATISFIED
    /\ delete_handler = <<>>
    /\ file_header \in FileHeaders
    /\ batch_limit = RowsPerBlock
    /\ InitEngine(0)
    /\ InitLocator

SegmentInit ==
    \E e \in Engines, using_cache \in BOOLEAN, open \in LoadStatus,
       mapped \in BOOLEAN, with_lzo \in BOOLEAN, shared_buffer \in BOOLEAN,
       stream \in LoadStatus :
        init(e, using_cache, open, mapped, with_lzo, shared_buffer, stream)

NextInit ==
    \/ SegmentInit
    \/ LoadIndexLookup
    \/ LoadIndexRead
    \/ LoadIndexReader

SpecInit == InitHeaders /\ [][NextInit]_vars

NextCache ==
    \/ LoadIndex
    \/ LoadIndexLookup
    \/ LoadIndexRead
    \/ LoadIndexReader
    \/ DestructorReaders
    \/ DestructorRelease
    \/ CacheEvict

SpecCache == InitLoaders /\ [][NextCache]_vars

----------------------------------------------------------------------------
(* One engine that scans several ranges of a segment with delete           *)
(* conditions: every seek_to_block prunes its range anew.                  *)

InitReseek ==
    /\ block_count \in 1 .. RescanBlocks
    /\ number_of_rows = (block_count - 1) * RowsPerBlock + 1
    /\ conditions = {}
    /\ load_bf_columns = {}
    /\ delete_status = DEL_PARTIAL_SATISFIED
    /\ delete_handler = <<>>
    /\ file_header = column_data_header
    /\ batch_limit = RowsPerBlock
    /\ InitEngine(2)
    /\ InitLocator

\* the delete handler holds one condition, on columns 1 and 4, that applies
\* to the segment
PickDeleteCondOne ==
    \E more \in {cond_index < 1} :
        pick_delete_row_groups_cond(more, segment_version + 1, {1, 4})

NextReseek ==
    \/ SeekToBlock
    \/ PickDeleteCondOne
    \/ PickDeleteBlock
    \/ PickColumn
    \/ GetBlock

SpecReseek == InitReseek /\ [][NextReseek]_vars

----------------------------------------------------------------------------
(* The stream locator on any header: the loop of _load_index and, after    *)
(* it, the loop of _read_all_data_streams.                                 *)

\* the lengths a stream of the header may have
StreamLengths == {100, 150, 200}

\* column 11 is stored in the segment, column 14 is not
StreamColumns == {11, 14}

StreamInfoMessage ==
    [column_unique_id : StreamColumns,
     kind : {ROW_INDEX, BLOOM_FILTER, DATA},
     length : StreamLengths]

InitStreams ==
    /\ block_count = 1
    /\ number_of_rows = RowsPerBlock
    /\ conditions = {}
    /\ load_bf_columns = {}
    /\ delete_status = DEL_NOT_SATISFIED
    /\ delete_handler = <<>>
    /\ file_header = column_data_header
    /\ batch_limit = RowsPerBlock
    /\ InitEngine(0)
    /\ _header_length = 500
    /\ \E n \in 0 .. MaxStreams : header_message \in [1 .. n -> StreamInfoMessage]
    /\ _include_columns \in {{}, {11}, {11, 14}}
    /\ _include_bf_columns \in {{}, {11}}
    /\ index_pass = [res |-> NULL, visited |-> <<>>]
    /\ data_pass = [res |-> NULL, visited |-> <<>>]

LocateIndexStreams ==
    \E failing \in 0 .. Len(header_message) : locate_index_streams(failing)

LocateDataStreams ==
    \E failing \in 0 .. Len(header_message) : locate_data_streams(failing)

NextStreams ==
    \/ LocateIndexStreams
    \/ LocateDataStreams

SpecStreams == InitStreams /\ [][NextStreams]_vars

----------------------------------------------------------------------------
(* A driver that reads several columns, one of them added to the table     *)
(* after the segment was written, in two scans of a segment of            *)
(* RescanBlocks full blocks, into batches of a block or one row less       *)

\* batch->columns(): column 4 has no index in the segment
ReaderColumns == {<<1, 2>>, <<4, 1, 2>>}

InitReaders ==
    /\ block_count = RescanBlocks
    /\ number_of_rows = block_count * RowsPerBlock
    /\ conditions = {}
    /\ load_bf_columns = {}
    /\ delete_status = DEL_PARTIAL_SATISFIED
    /\ delete_handler = <<>>
    /\ file_header = column_data_header
    /\ batch_limit \in {RowsPerBlock - 1, RowsPerBlock}
    /\ \E cids \in ReaderColumns : InitEngineWith(2, cids)
    /\ InitLocator

\* seek_to_block of a range that ends with the segment
SeekToBlockReaders ==
    \E first \in 0 .. block_count - 1, without \in BOOLEAN :
        seek_to_block(first, block_count - 1, without, TRUE, TRUE, "continue")

\* the delete condition matches a block in full or not at all
PickDeleteBlockReaders ==
    \E del_ret \in [evaluated_columns(del_columns) ->
                        {DEL_SATISFIED, DEL_NOT_SATISFIED}] :
        pick_delete_row_groups_block(del_ret)

NextReaders ==
    \/ SeekToBlockReaders
    \/ PickDeleteCondOne
    \/ PickDeleteBlockReaders
    \/ PickColumn
    \/ GetBlock

SpecReaders == InitReaders /\ [][NextReaders]_vars

----------------------------------------------------------------------------
(* Properties of the pruning engine and of the scan.                       *)

\* the steps of _pick_row_groups
PickPhases == {"del_cond", "del_block", "zone_col", "zone_block",
               "bloom_col", "bloom_block"}

\* seek_to_block has returned OLAP_SUCCESS and the scan it started is going on
\* or has been ended by a get_block
Scanning == pc = "scan" \/ (pc = "failed" /\ op = "get_block")

\* the range of the call lies inside the segment
InRange == first_block <= last_block /\ last_block < block_count

\* the blocks the batches of the scan were loaded from
LoadedBlocks == {loaded[i].from : i \in DOMAIN loaded}

\* the blocks of the range that are not Excluded
Remaining(include_blocks, first, last) ==
    {b \in first .. last : include_blocks[b] # DEL_SATISFIED}

\* Include < RequiresRowFilter < Excluded
strictness(disposition) ==
    CASE disposition = DEL_NOT_SATISFIED -> 0
      [] disposition = DEL_PARTIAL_SATISFIED -> 1
      [] disposition = DEL_SATISFIED -> 2
      [] OTHER -> -1

\* C1: after a successful seek_to_block(a, b, ignore_filter = false) with
\* a <= b < block_count every block outside [a, b] is Excluded in the
\* disposition array, and no get_block of the scan loads a batch from a block
\* outside [a, b].
C1_OutsideRangeExcluded ==
    (Scanning /\ _include_blocks # NoArray /\ InRange /\ ~uninit_read) =>
        /\ \A b \in 0 .. block_count - 1 :
               (b < first_block \/ b > last_block)
                   => _include_blocks[b] = DEL_SATISFIED
        /\ LoadedBlocks \subseteq first_block .. last_block

\* C2: a scan from a successful seek_to_block(a, b, ignore_filter = false) to
\* eof loads exactly the blocks of [a, b] that are not Excluded, each once, in
\* ascending order, and every batch carries the disposition of its block,
\* which is never Excluded.
C2_ScanYieldsRemaining ==
    (Scanning /\ _include_blocks # NoArray /\ InRange /\ ~uninit_read) =>
        /\ \A i \in DOMAIN loaded :
               /\ loaded[i].block_status = _include_blocks[loaded[i].from]
               /\ loaded[i].block_status # DEL_SATISFIED
        /\ \A i \in DOMAIN loaded : \A k \in DOMAIN loaded :
               i < k => loaded[i].from < loaded[k].from
        /\ LoadedBlocks \subseteq Remaining(_include_blocks, first_block, last_block)
        /\ (pc = "scan" /\ _eof)
               => LoadedBlocks = Remaining(_include_blocks, first_block, last_block)

C5_BloomThreshold ==
    [][(/\ (pc = "zone_col" /\ pc' \notin {"zone_col", "zone_block"} /\ InRange)
           => /\ (pc' = "bloom_col")
                   <=> (/\ conditions # {}
                        /\ Cardinality(Remaining(_include_blocks, first_block,
                                                 last_block))
                               >= MIN_FILTER_BLOCK_NUM)
              /\ (pc' # "bloom_col")
                   => (/\ pc' = "scan"
                       /\ UNCHANGED <<_include_blocks, _remain_block, stats>>)
        /\ (pc \in {"bloom_col", "bloom_block"} /\ InRange)
           => /\ _remain_block' <= _remain_block
              /\ Cardinality(Remaining(_include_blocks', first_block, last_block))
                     <= Cardinality(Remaining(_include_blocks, first_block,
                                              last_block)))]_vars

\* the zone maps left all MIN_FILTER_BLOCK_NUM blocks of the range, the bloom
\* filter phase was entered, and the bloom filter of a column has excluded a
\* block
C5_Witness ==
    /\ pc = "bloom_col"
    /\ column > 0
    /\ InRange
    /\ last_block - first_block + 1 = MIN_FILTER_BLOCK_NUM
    /\ _remain_block = MIN_FILTER_BLOCK_NUM - 1

\* the rows of the batches loaded so far in the scan
RECURSIVE rows_loaded(_)
rows_loaded(loads) ==
    IF loads = <<>> THEN 0 ELSE Head(loads).size + rows_loaded(Tail(loads))

\* C6: in an unfiltered scan of the whole segment, seek_to_block(0,
\* block_count - 1, ignore_filter = true), with a batch limit of one block,
\* the get_block for a block that is not the last loads RowsPerBlock rows,
\* the one for the last block loads number_of_rows - RowsPerBlock *
\* (block_count - 1) rows, and at eof the loads add up to number_of_rows.
C6_RowCountAccounting ==
    (/\ Scanning
     /\ _without_filter = TRUE
     /\ first_block = 0
     /\ last_block = block_count - 1
     /\ batch_limit = RowsPerBlock
     /\ ~uninit_read) =>
        /\ \A i \in DOMAIN loaded :
               loaded[i].size = IF loaded[i].block < block_count - 1
                                THEN RowsPerBlock
                                ELSE number_of_rows
                                         - RowsPerBlock * (block_count - 1)
        /\ (pc = "scan" /\ _eof) => rows_loaded(loaded) = number_of_rows

\* C7: a get_block at EndOfScan returns OLAP_SUCCESS with eof = true and
\* changes nothing else: no batch, no position, no disposition, no counter.
C7_GetBlockAtEof ==
    [][(pc = "scan" /\ _eof /\ op' = "get_block") =>
          (/\ res' = OLAP_SUCCESS
           /\ eof_out' = TRUE
           /\ UNCHANGED <<engineVars, next_block_out, batch, loaded>>)]_vars

\* the seek found no block to read, and a get_block has been answered
C7_Witness ==
    /\ pc = "scan"
    /\ _eof
    /\ op = "get_block"
    /\ res = OLAP_SUCCESS
    /\ eof_out
    /\ loaded = <<>>

----------------------------------------------------------------------------
(* Properties of the index cache loader.                                   *)

\* engine e has not yet released the handle of its i-th loaded stream
HoldsHandle(e, i) ==
    /\ e_pc[e] # "destroyed"
    /\ e_pc[e] = "release" => release_index[e] <= i

\* the handles engine e acquired, by a lookup hit or by an insert
Acquired(e) ==
    {index_loads[e][i].handle : i \in DOMAIN index_loads[e]} \ {0}

Occurrences(seq, x) == Cardinality({i \in DOMAIN seq : seq[i] = x})

\* C8 as stated: two engines that load the same index stream with caching
\* enabled use the same buffer, and the buffer an engine uses stays alive in
\* the cache while the engine holds its handle, whatever the other engine
\* does.
C8_SameCachedBuffer ==
    evictions = 0 =>
        \A e1 \in Engines : \A e2 \in Engines :
            (use_cache[e1] /\ use_cache[e2]) =>
                \A i \in DOMAIN index_loads[e1] : \A k \in DOMAIN index_loads[e2] :
                    /\ index_loads[e1][i].stream = index_loads[e2][k].stream
                           => index_loads[e1][i].buffer = index_loads[e2][k].buffer
                    /\ HoldsHandle(e1, i)
                           => heap[index_loads[e1][i].buffer].freed = 0

\* C8: an engine that loads an index stream with caching enabled holds a
\* handle on a cache entry whose buffer has the bytes of that stream of the
\* file, so two engines loading the same stream read the same bytes; the
\* entry and its buffer stay alive as long as the engine holds the handle,
\* whatever the other engine loads or releases and whatever the cache evicts.
C8_SameIndexBytes ==
    \A e \in Engines :
        use_cache[e] =>
            \A i \in DOMAIN index_loads[e] :
                LET load == index_loads[e][i]
                IN  /\ heap[load.buffer].bytes
                           = stream_bytes(file_name(e), load.stream)
                    /\ load.handle # 0
                    /\ lru_cache[load.handle].value = load.buffer
                    /\ HoldsHandle(e, i)
                           => /\ heap[load.buffer].freed = 0
                              /\ lru_cache[load.handle].refs >= 1

\* an engine has been torn down and has released its handle on an entry on
\* which the other engine, which has loaded its indexes, holds a handle
C8_Witness ==
    \E e1 \in Engines : \E e2 \in Engines \ {e1} :
        /\ use_cache[e1]
        /\ use_cache[e2]
        /\ e_pc[e1] = "destroyed"
        /\ e_pc[e2] = "loaded"
        /\ \E i \in DOMAIN index_loads[e2] :
               /\ Occurrences(released[e1], index_loads[e2][i].handle) = 1
               /\ heap[index_loads[e2][i].buffer].freed = 0

\* C9: every handle an engine acquires in _load_index is released once, in
\* ~SegmentReader and not before, also when _load_index returned an error;
\* the references of a cache entry are the one of the cache table and one
\* for each handle held.
C9_HandlesReleasedOnce ==
    /\ \A e \in Engines :
           /\ e_pc[e] \notin {"release", "destroyed"} => released[e] = <<>>
           /\ \A i \in DOMAIN released[e] :
                  /\ released[e][i] \in Acquired(e)
                  /\ Occurrences(released[e], released[e][i]) = 1
           /\ e_pc[e] = "destroyed"
                  => \A h \in Acquired(e) : Occurrences(released[e], h) = 1
    /\ \A h \in DOMAIN lru_cache :
           lru_cache[h].refs =
               (IF lru_cache[h].in_table THEN 1 ELSE 0)
               + Cardinality({<<e, i>> \in Engines \X (1 .. Len(stream_info)) :
                                 /\ i \in DOMAIN index_loads[e]
                                 /\ index_loads[e][i].handle = h
                                 /\ HoldsHandle(e, i)})

\* _load_index returned an error after it had acquired a handle, and the
\* engine has been torn down
C9_Witness ==
    \E e \in Engines :
        /\ e_pc[e] = "destroyed"
        /\ load_res[e] # OLAP_SUCCESS
        /\ released[e] # <<>>

\* C10: no index buffer is freed twice and no index reader is deleted twice,
\* and once an engine is torn down every buffer it allocated that the cache
\* does not own has been freed and every index reader it created has been
\* deleted, whichever way _load_index returned.
C10_BuffersAndReadersFreedOnce ==
    /\ \A b \in DOMAIN heap : heap[b].freed <= 1
    /\ \A r \in DOMAIN index_readers : index_readers[r].deleted <= 1
    /\ \A e \in Engines :
           e_pc[e] = "destroyed" =>
               /\ \A b \in DOMAIN heap :
                      (heap[b].engine = e /\ ~heap[b].cached)
                          => heap[b].freed = 1
               /\ \A r \in DOMAIN index_readers :
                      index_readers[r].engine = e
                          => index_readers[r].deleted = 1

\* C11: an engine whose init was called with caching disabled inserts no
\* index buffer into the cache: every buffer it allocated for a stream that
\* missed stays its own, with no handle, whatever the lookups of its other
\* streams returned.
C11_NoInsertWhenCachingDisabled ==
    \A e \in Engines :
        ~use_cache[e] =>
            \A i \in DOMAIN index_loads[e] :
                LET load == index_loads[e][i]
                IN  heap[load.buffer].engine = e
                        => /\ load.handle = 0
                           /\ ~heap[load.buffer].cached

----------------------------------------------------------------------------
(* Properties of the stream locator.                                       *)

\* the sum of the lengths of the first n streams of the header
RECURSIVE lengths_sum(_)
lengths_sum(n) ==
    IF n = 0 THEN 0 ELSE header_message[n].length + lengths_sum(n - 1)

\* the streams a pass went on to load or open, and did
Done(pass) ==
    {k \in DOMAIN pass.visited :
        /\ pass.visited[k].needed
        /\ k < Len(pass.visited) \/ pass.res = OLAP_SUCCESS}

\* the streams a pass came to with no error
Passed(pass) ==
    {k \in DOMAIN pass.visited :
        k < Len(pass.visited) \/ pass.res = OLAP_SUCCESS}

\* C12: in both passes the offset used at the i-th stream of the header is
\* the header length plus the sum of the lengths of the streams before it,
\* whichever of them were skipped; the two passes use the same offset for
\* the same stream.
C12_StreamOffsets ==
    /\ \A k \in DOMAIN index_pass.visited :
           /\ index_pass.visited[k].stream_index = k
           /\ index_pass.visited[k].stream_offset
                  = _header_length + lengths_sum(k - 1)
    /\ \A k \in DOMAIN data_pass.visited :
           /\ data_pass.visited[k].stream_index = k
           /\ data_pass.visited[k].stream_offset
                  = _header_length + lengths_sum(k - 1)
    /\ \A k \in DOMAIN index_pass.visited \cap DOMAIN data_pass.visited :
           index_pass.visited[k].stream_offset
               = data_pass.visited[k].stream_offset

\* both passes have run over streams of lengths 100, 200, 150 behind a
\* header of 500 bytes; the index pass skipped the second stream and loaded
\* the third at offset 800, the data pass skipped the third at offset 800
C12_Witness ==
    /\ _header_length = 500
    /\ Len(header_message) = 3
    /\ header_message[1].length = 100
    /\ header_message[2].length = 200
    /\ header_message[3].length = 150
    /\ index_pass.res = OLAP_SUCCESS
    /\ data_pass.res = OLAP_SUCCESS
    /\ ~index_pass.visited[2].needed
    /\ index_pass.visited[2].stream_offset = 600
    /\ index_pass.visited[3].needed
    /\ index_pass.visited[3].stream_offset = 800
    /\ ~data_pass.visited[3].needed
    /\ data_pass.visited[3].stream_offset = 800

\* C13: both passes take the streams in the order of the header. The index
\* pass loads a stream if and only if its column has a segment-local id and
\* it is a ROW_INDEX of a column to read or a BLOOM_FILTER of a bloom filter
\* column; the data pass opens a stream if and only if its column has a
\* segment-local id, its kind is neither ROW_INDEX nor BLOOM_FILTER and its
\* column is a column to read or a bloom filter column. A pass that returns
\* an error has done so for the streams before the one it failed at.
C13_StreamsNeeded ==
    /\ \A k \in DOMAIN index_pass.visited :
           index_pass.visited[k].stream_index = k
    /\ \A k \in DOMAIN data_pass.visited :
           data_pass.visited[k].stream_index = k
    /\ index_pass.res = OLAP_SUCCESS
           => Len(index_pass.visited) = Len(header_message)
    /\ data_pass.res = OLAP_SUCCESS
           => Len(data_pass.visited) = Len(header_message)
    /\ \A k \in Passed(index_pass) :
           LET message == header_message[k]
           IN  k \in Done(index_pass) <=>
                   /\ message.column_unique_id \in unique_id_to_segment_id_map
                   /\ \/ /\ message.kind = ROW_INDEX
                         /\ message.column_unique_id \in _include_columns
                      \/ /\ message.kind = BLOOM_FILTER
                         /\ message.column_unique_id \in _include_bf_columns
    /\ \A k \in Passed(data_pass) :
           LET message == header_message[k]
           IN  k \in Done(data_pass) <=>
                   /\ message.column_unique_id \in unique_id_to_segment_id_map
                   /\ message.kind \notin {ROW_INDEX, BLOOM_FILTER}
                   /\ \/ message.column_unique_id \in _include_columns
                      \/ message.column_unique_id \in _include_bf_columns

\* both passes have run: the index pass skipped the ROW_INDEX of a column to
\* read that the segment does not store and loaded a BLOOM_FILTER, the data
\* pass skipped the BLOOM_FILTER and opened a data stream
C13_Witness ==
    /\ index_pass.res = OLAP_SUCCESS
    /\ data_pass.res = OLAP_SUCCESS
    /\ Len(header_message) = 3
    /\ header_message[1].kind = ROW_INDEX
    /\ header_message[1].column_unique_id \in _include_columns
    /\ header_message[1].column_unique_id \notin unique_id_to_segment_id_map
    /\ header_message[2].kind = BLOOM_FILTER
    /\ header_message[3].kind = DATA
    /\ Done(index_pass) = {2}
    /\ Done(data_pass) = {3}

----------------------------------------------------------------------------
(* Properties of the block counts of the index structures.                 *)

\* the index readers engine e has recorded in _indices and _bloom_filters
Structures(e) ==
    {_indices[e][u] : u \in DOMAIN _indices[e]}
        \cup {_bloom_filters[e][u] : u \in DOMAIN _bloom_filters[e]}

\* C14: _load_index returns OLAP_ERR_FILE_FORMAT_ERROR as soon as a structure
\* it has loaded has a number of entries that is not
\* ceil(number_of_rows / num_rows_per_block), and so as soon as two loaded
\* structures differ: the structure is the last one the engine loads. When
\* _load_index succeeds every structure it loaded has _block_count entries.
C14_BlockCountsAgree ==
    \A e \in Engines :
        /\ \A r \in Structures(e) :
               index_readers[r].entry_count # expected_blocks
                   => /\ load_res[e] = OLAP_ERR_FILE_FORMAT_ERROR
                      /\ \A q \in DOMAIN index_readers :
                             index_readers[q].engine = e => q <= r
        /\ \A r \in Structures(e) : \A q \in Structures(e) :
               index_readers[r].entry_count # index_readers[q].entry_count
                   => load_res[e] = OLAP_ERR_FILE_FORMAT_ERROR
        /\ load_res[e] = OLAP_SUCCESS
               => \A r \in Structures(e) :
                      /\ index_readers[r].entry_count = _block_count[e]
                      /\ _block_count[e] = expected_blocks

\* _load_index has loaded two structures, the second with a number of
\* entries different from the first, and has returned the format error
C14_Witness ==
    \E e \in Engines :
        /\ load_res[e] = OLAP_ERR_FILE_FORMAT_ERROR
        /\ \E r \in Structures(e) : \E q \in Structures(e) :
               /\ r < q
               /\ index_readers[r].entry_count = expected_blocks
               /\ index_readers[q].entry_count # expected_blocks
               /\ _block_count[e] = index_readers[q].entry_count

----------------------------------------------------------------------------
(* Properties of the errors of seek_to_block and get_block.                *)

\* a seek_to_block call that has materialized the data streams and readers
SeekStep ==
    /\ pc \in {"init", "scan"}
    /\ op' = "seek_to_block"
    /\ seeks_left' < seeks_left
    /\ _is_data_loaded'

\* C15: a seek_to_block with filtering and first_block > last_block returns
\* OLAP_ERR_INPUT_PARAMETER_ERROR; the engine has no disposition array and
\* has written none, and the caller's next block and eof are not set.
C15_InvalidRangeRejected ==
    [][(SeekStep /\ ~_without_filter' /\ first_block' > last_block') =>
          (/\ res' = OLAP_ERR_INPUT_PARAMETER_ERROR
           /\ pc' = "failed"
           /\ _include_blocks' = NoArray
           /\ UNCHANGED <<next_block_out, eof_out, _next_block_id, oob_access,
                          stats>>)]_vars

\* after a scan that reported its blocks, a second seek_to_block with
\* filtering and first_block > last_block has returned the error
C15_Witness ==
    /\ pc = "failed"
    /\ op = "seek_to_block"
    /\ seeks_left = 0
    /\ first_block > last_block
    /\ res = OLAP_ERR_INPUT_PARAMETER_ERROR
    /\ _include_blocks = NoArray
    /\ next_block_out # Uninit
    /\ loaded # <<>>

\* C16: when the seek of a column reader fails in get_block, get_block
\* returns what _seek_to_block_directly made of it, OLAP_ERR_DATA_EOF for a
\* column end of stream and OLAP_ERR_COLUMN_SEEK_ERROR for any other
\* failure, and loads no batch from the readers it could not position.
C16_SeekFailureIsFatal ==
    [][(/\ pc = "scan"
        /\ ~_eof
        /\ op' = "get_block"
        /\ seek_failures' > seek_failures
        /\ ~uninit_read') =>
          (/\ seek_res' \in {OLAP_ERR_DATA_EOF, OLAP_ERR_COLUMN_SEEK_ERROR}
           /\ res' = seek_res'
           /\ UNCHANGED <<batch, loaded, stats>>)]_vars

\* C17: when next_vector of a column reader fails in get_block, get_block
\* returns that status; _next_block_id and _eof and what the caller was told
\* of them stay as they were, the batch gets neither size nor block status,
\* and blocks_load and raw_rows_read are not incremented.
C17_DecoderFailureAborts ==
    [][(/\ pc = "scan"
        /\ ~_eof
        /\ op' = "get_block"
        /\ vector_res' # OLAP_SUCCESS) =>
          (/\ res' = vector_res'
           /\ pc' = "failed"
           /\ UNCHANGED <<_next_block_id, _eof, next_block_out, eof_out, batch,
                          loaded, stats>>)]_vars

\* a get_block has loaded a batch and the next one has failed in a decoder
C17_Witness ==
    /\ pc = "failed"
    /\ op = "get_block"
    /\ vector_res = OLAP_ERR_OTHER
    /\ res = OLAP_ERR_OTHER
    /\ Len(loaded) = 1
    /\ stats.blocks_load = 1
    /\ ~_eof

\* a step in which seek_to_block returns OLAP_SUCCESS
SeekReturns ==
    /\ op' = "seek_to_block"
    /\ pc' = "scan"
    /\ pc \in PickPhases \/ seeks_left' < seeks_left

\* the blocks of [first, min(last, _block_count - 1)] that are not Excluded
\* in the disposition array, all of them when there is no array
Readable(include_blocks, first, last) ==
    {b \in first .. Min(last, block_count - 1) :
        include_blocks # NoArray => include_blocks[b] # DEL_SATISFIED}

\* what a returning seek_to_block leaves behind: success, no staged rows, the
\* seek flag set, and the reported block the first readable block of the range
SeekReported ==
    LET readable == Readable(_include_blocks', first_block', last_block')
    IN  /\ res' = OLAP_SUCCESS
        /\ loaded' = <<>>
        /\ _need_to_seek_block' = TRUE
        /\ eof_out' = _eof'
        /\ next_block_out' = _next_block_id'
        /\ IF readable = {}
           THEN eof_out' = TRUE
           ELSE /\ eof_out' = FALSE
                /\ next_block_out' \in readable
                /\ \A b \in readable : next_block_out' <= b

\* a get_block called at end of data
GetBlockAtEof == pc = "scan" /\ _eof /\ op' = "get_block"

\* the call leaves end of data set and stages, loads and counts nothing
NothingRead == _eof' /\ UNCHANGED <<loaded, batch, stats>>

\* C18: whatever state the engine was in, a seek_to_block that succeeds
\* reports the smallest block of [first, min(last, _block_count - 1)] that is
\* not Excluded, with eof = false, and eof = true when there is none; the
\* scan starts anew with a seek pending. After eof = true no get_block loads
\* a row.
C18_SeekResetsCursor ==
    [][(SeekReturns => SeekReported) /\ (GetBlockAtEof => NothingRead)]_vars

\* a scan has ended, and a second seek_to_block of a range whose first block
\* is Excluded has reported the block after it
C18_Witness ==
    /\ pc = "scan"
    /\ op = "seek_to_block"
    /\ seeks_left = 0
    /\ res = OLAP_SUCCESS
    /\ stats.blocks_load > 0
    /\ _include_blocks # NoArray
    /\ _include_blocks[first_block] = DEL_SATISFIED
    /\ next_block_out = first_block + 1
    /\ ~eof_out

----------------------------------------------------------------------------
(* The outcome of a delete condition on a block                            *)

\* a pass of the block loop of _pick_delete_row_groups on a block that is not
\* Excluded
DeleteBlockStep ==
    /\ pc = "del_block"
    /\ pc' \in {"del_block", "del_cond"}
    /\ _include_blocks[j] # DEL_SATISFIED

\* the outcome the locals of the pass stand for
Outcome(flags) ==
    IF flags.del_not_satisfied THEN "NoMatch"
    ELSE IF flags.del_partial_satisfied THEN "PartialMatch"
    ELSE "FullMatch"

\* the columns del_eval was called on, and those it returned del_ret for
Called(flags) == {e.column : e \in flags.del_evals}
Yielding(flags, del_ret) ==
    {e.column : e \in {x \in flags.del_evals : x.del_ret = del_ret}}

\* C19: a delete condition with at least one column present in the segment
\* is evaluated on a block that is not Excluded: no column without a
\* segment-local mapping is evaluated and no column twice; if a column yields
\* NoMatch the outcome is NoMatch, that column is the only one yielding
\* NoMatch and no column after it is evaluated; otherwise every mapped column
\* is evaluated and the outcome is PartialMatch if one of them yielded
\* PartialMatch and FullMatch if none did.
C19_DeleteConditionOutcome ==
    [][(DeleteBlockStep /\ evaluated_columns(del_columns) # {}) =>
          (LET flags == del_flags'
               mapped == evaluated_columns(del_columns)
               none == Yielding(flags, DEL_NOT_SATISFIED)
               partial == Yielding(flags, DEL_PARTIAL_SATISFIED)
           IN  /\ Called(flags) \subseteq mapped
               /\ Cardinality(flags.del_evals) = Cardinality(Called(flags))
               /\ IF none # {}
                  THEN /\ Outcome(flags) = "NoMatch"
                       /\ Cardinality(none) = 1
                       /\ \A c \in none :
                              Called(flags) = {m \in mapped : m <= c}
                  ELSE /\ Called(flags) = mapped
                       /\ Outcome(flags) = IF partial # {} THEN "PartialMatch"
                                           ELSE "FullMatch")]_vars

\* the condition is on columns 1 and 2, both in the segment: column 1 yielded
\* NoMatch on a block and column 2 was not evaluated
C19_Witness ==
    /\ pc = "del_block"
    /\ del_columns = {1, 2}
    /\ j > first_block
    /\ del_flags.del_not_satisfied
    /\ del_flags.del_evals = {[column |-> 1, del_ret |-> DEL_NOT_SATISFIED]}

\* the outcome of the condition of the pass, a condition without columns
\* counting as NoMatch
Applied(columns, flags) ==
    IF Cardinality(columns) = 0 THEN "NoMatch" ELSE Outcome(flags)

\* C20: the outcome of a delete condition is applied to a block of the range
\* that is not Excluded: FullMatch makes it Excluded, whether it was Include
\* or RequiresRowFilter, and lowers _remain_block by one; PartialMatch makes
\* it RequiresRowFilter and NoMatch makes it Include, except that NoMatch
\* leaves a RequiresRowFilter block as it is, and both leave _remain_block
\* unchanged. No other block changes.
C20_DeleteOutcomeApplied ==
    [][(DeleteBlockStep /\ InRange) =>
          (LET outcome == Applied(del_columns, del_flags')
               current == _include_blocks[j]
           IN  /\ \A b \in 0 .. block_count - 1 :
                      b # j => _include_blocks'[b] = _include_blocks[b]
               /\ outcome = "FullMatch" =>
                      /\ _include_blocks'[j] = DEL_SATISFIED
                      /\ _remain_block' = _remain_block - 1
               /\ outcome = "PartialMatch" =>
                      /\ _include_blocks'[j] = DEL_PARTIAL_SATISFIED
                      /\ _remain_block' = _remain_block
               /\ outcome = "NoMatch" =>
                      /\ _include_blocks'[j] =
                             IF current = DEL_PARTIAL_SATISFIED
                             THEN DEL_PARTIAL_SATISFIED
                             ELSE DEL_NOT_SATISFIED
                      /\ _remain_block' = _remain_block)]_vars

\* the second delete condition, on columns 1 and 2, matched the first block of
\* the range in full: the block is Excluded and all others of the range remain
C20_Witness ==
    /\ pc = "del_block"
    /\ InRange
    /\ cond_index = 2
    /\ del_columns = {1, 2}
    /\ j = first_block + 1
    /\ Outcome(del_flags) = "FullMatch"
    /\ Called(del_flags) = {1, 2}
    /\ _include_blocks[first_block] = DEL_SATISFIED
    /\ _remain_block = last_block - first_block

\* a pass of the block loop under a delete condition without columns
ZeroColumnStep == DeleteBlockStep /\ InRange /\ Cardinality(del_columns) = 0

\* C21: a delete condition without columns is applied as NoMatch: on a block
\* of the range that is not Excluded it calls no del_eval, leaves a
\* RequiresRowFilter block as it is and makes any other block Include, so it
\* never makes a block Excluded or RequiresRowFilter, and it changes neither
\* _remain_block nor the filtered-row counters.
C21_ZeroColumnsIsNoMatch ==
    [][ZeroColumnStep =>
          (/\ del_flags'.del_evals = {}
           /\ _include_blocks'[j] =
                  IF _include_blocks[j] = DEL_PARTIAL_SATISFIED
                  THEN DEL_PARTIAL_SATISFIED
                  ELSE DEL_NOT_SATISFIED
           /\ \A b \in 0 .. block_count - 1 :
                  /\ _include_blocks'[b] = DEL_SATISFIED
                         => _include_blocks[b] = DEL_SATISFIED
                  /\ _include_blocks'[b] = DEL_PARTIAL_SATISFIED
                         => _include_blocks[b] = DEL_PARTIAL_SATISFIED
           /\ UNCHANGED <<_remain_block, stats>>)]_vars

\* the second delete condition has no column and has passed over the first
\* block of the range, which the first condition had left Include: the block
\* is Include and every block of the range remains
C21_Witness ==
    /\ pc = "del_block"
    /\ InRange
    /\ cond_index = 2
    /\ del_columns = {}
    /\ j = first_block + 1
    /\ _include_blocks[first_block] = DEL_NOT_SATISFIED
    /\ _remain_block = last_block - first_block + 1

\* C22 as stated: a delete condition without columns yields FullMatch on
\* every block it is evaluated on, that is, the block becomes Excluded and
\* _remain_block is lowered by one.
C22_ZeroColumnsFullMatch ==
    [][ZeroColumnStep =>
          (/\ _include_blocks'[j] = DEL_SATISFIED
           /\ _remain_block' = _remain_block - 1)]_vars

\* C22, amended: a delete condition yields FullMatch on a block, making it
\* Excluded, only if it has at least one column and no evaluated column
\* yielded PartialMatch or NoMatch; a condition without columns yields
\* NoMatch and makes no block Excluded.
C22_FullMatchNeedsColumns ==
    [][(DeleteBlockStep /\ InRange) =>
          (/\ _include_blocks'[j] = DEL_SATISFIED =>
                  /\ Cardinality(del_columns) > 0
                  /\ \A e \in del_flags'.del_evals : e.del_ret = DEL_SATISFIED
                  /\ Applied(del_columns, del_flags') = "FullMatch"
           /\ Cardinality(del_columns) = 0 =>
                  /\ Applied(del_columns, del_flags') = "NoMatch"
                  /\ _include_blocks'[j] # DEL_SATISFIED)]_vars

\* the first delete condition has no column and has passed over the first
\* block of a range of several blocks: the block is not Excluded
C22_Witness ==
    /\ pc = "del_block"
    /\ InRange
    /\ cond_index = 1
    /\ del_columns = {}
    /\ j = first_block + 1
    /\ del_flags = no_flags
    /\ _include_blocks[first_block] # DEL_SATISFIED
    /\ _remain_block = last_block - first_block + 1

----------------------------------------------------------------------------
(* Which delete conditions are evaluated                                   *)

\* a step of the head of _pick_delete_row_groups: the early returns and the
\* taking of the next condition of the handler
DeleteCondStep == pc = "del_cond" /\ pc' \in {"del_cond", "del_block", "zone_col"}

\* the step has taken a condition from the handler
ConditionTaken == cond_index' = cond_index + 1

\* C23: the head of the delete phase changes no disposition, no counter and
\* no telemetry. With a handler without conditions or a segment whose delete
\* status is 'not satisfied' the phase ends at once, no block having been
\* evaluated. Otherwise the conditions are taken one after the other, a
\* condition is evaluated on the blocks only if its filter_version is greater
\* than the segment's version, and a condition whose filter_version is less
\* than or equal to it is passed over, the next one being taken.
C23_ApplicableConditionsOnly ==
    [][(/\ DeleteCondStep =>
              /\ UNCHANGED <<_include_blocks, _remain_block, stats>>
              /\ delete_status = DEL_NOT_SATISFIED =>
                     (pc' = "zone_col" /\ cond_index' = 0)
              /\ pc' = "zone_col" => cond_index' = cond_index
              /\ pc' # "zone_col" => ConditionTaken
              /\ ConditionTaken =>
                     /\ pc' = IF filter_version' > segment_version
                              THEN "del_block" ELSE "del_cond"
                     /\ filter_version' <= segment_version
                            => del_columns' = {}
        /\ pc' = "del_block" =>
              /\ filter_version' > segment_version
              /\ delete_status # DEL_NOT_SATISFIED
              /\ cond_index' >= 1)]_vars

\* the first condition of the handler has the filter_version of the segment's
\* version: it was passed over, every block of the range remains and nothing
\* was counted
C23_Witness ==
    /\ pc = "del_cond"
    /\ InRange
    /\ first_block < last_block
    /\ cond_index = 1
    /\ filter_version = segment_version
    /\ del_columns = {}
    /\ _remain_block = last_block - first_block + 1
    /\ \A b \in first_block .. last_block :
           _include_blocks[b] = DEL_NOT_SATISFIED
    /\ stats.rows_del_filtered = 0

----------------------------------------------------------------------------
(* The zone-map and bloom-filter phases                                    *)

ColumnPhases == {"zone_col", "bloom_col"}
BlockPhases == {"zone_block", "bloom_block"}

\* the column may be used to prune: it is not aggregated and the segment
\* holds it
Prunable(table_column_id) ==
    /\ aggregation_none(table_column_id)
    /\ tablet_id_to_unique_id(table_column_id) \in unique_id_to_segment_id_map

\* C24: in the zone-map and bloom-filter phases the blocks are evaluated only
\* under a predicate column that is not aggregated and has a segment-local
\* mapping, and only such an evaluation changes a disposition, _remain_block
\* or the filtered-row counters; a column that is aggregated or absent from
\* the segment is passed over, and without predicates the two phases end at
\* once.
C24_OnlyPrunableColumnsFilter ==
    [][(/\ (pc \in ColumnPhases \cup BlockPhases /\ pc' \in BlockPhases) =>
              /\ column' \in conditions
              /\ Prunable(column')
              /\ pc' = "bloom_block" => column' \in load_bf_columns
        /\ pc \in ColumnPhases =>
              UNCHANGED <<_include_blocks, _remain_block, stats>>
        /\ pc \in BlockPhases =>
              (\/ UNCHANGED <<_include_blocks, _remain_block, stats>>
               \/ column \in conditions /\ Prunable(column))
        /\ (pc = "zone_col" /\ conditions = {}) =>
              pc' \notin ColumnPhases \cup BlockPhases)]_vars

\* the predicates are on columns 1, 3 and 4: column 1 has excluded a block
\* by its statistics, column 3, aggregated, was passed over, and so was
\* column 4, which the segment does not hold
C24_Witness ==
    /\ pc = "bloom_col"
    /\ conditions = {1, 3, 4}
    /\ ~aggregation_none(3)
    /\ tablet_id_to_unique_id(4) \notin unique_id_to_segment_id_map
    /\ column = 4
    /\ InRange
    /\ \E b \in first_block .. last_block : _include_blocks[b] = DEL_SATISFIED
    /\ stats.rows_stats_filtered > 0

----------------------------------------------------------------------------
(* Filtered-row telemetry                                                  *)

\* the rows the segment holds in block b
RowsOf(b) ==
    IF b = block_count - 1
    THEN number_of_rows - (block_count - 1) * RowsPerBlock
    ELSE RowsPerBlock

RECURSIVE RowsIn(_)
RowsIn(blocks) ==
    IF blocks = {} THEN 0
    ELSE LET b == CHOOSE x \in blocks : TRUE
         IN  RowsOf(b) + RowsIn(blocks \ {b})

\* the blocks of the range a step makes Excluded
NewlyExcluded ==
    {b \in first_block .. last_block :
        /\ _include_blocks[b] # DEL_SATISFIED
        /\ _include_blocks'[b] = DEL_SATISFIED}

\* C25: in a _pick_row_groups run over a range inside the segment, a step
\* that makes a block Excluded adds the rows of that block, RowsPerBlock or,
\* for the last block of the segment, the remainder, to rows_del_filtered if
\* it is a step of the delete phase and to rows_stats_filtered otherwise; no
\* other step changes either counter, and a block that is Excluded stays so,
\* so that it is counted once.
C25_FilteredRowsCounted ==
    [][(pc \in PickPhases /\ InRange) =>
          (/\ stats'.rows_del_filtered = stats.rows_del_filtered +
                  (IF pc = "del_block" THEN RowsIn(NewlyExcluded) ELSE 0)
           /\ stats'.rows_stats_filtered = stats.rows_stats_filtered +
                  (IF pc \in BlockPhases THEN RowsIn(NewlyExcluded) ELSE 0)
           /\ NewlyExcluded # {} => pc \in BlockPhases \cup {"del_block"}
           /\ \A b \in first_block .. last_block :
                  _include_blocks[b] = DEL_SATISFIED
                      => _include_blocks'[b] = DEL_SATISFIED)]_vars

\* the last block of the segment holds one row: a predicate has excluded it
\* and a delete condition has excluded one full block, and each counter holds
\* the rows of its block
C25_Witness ==
    /\ pc = "scan"
    /\ op = "seek_to_block"
    /\ InRange
    /\ _include_blocks # NoArray
    /\ last_block = block_count - 1
    /\ RowsOf(last_block) = 1
    /\ _include_blocks[last_block] = DEL_SATISFIED
    /\ stats.rows_stats_filtered = 1
    /\ stats.rows_del_filtered = RowsPerBlock
    /\ Cardinality({b \in first_block .. last_block :
                       _include_blocks[b] = DEL_SATISFIED}) = 2

----------------------------------------------------------------------------
(* Where the column readers stand when a batch is loaded                   *)

\* the column has a row index in the segment
HasIndex(cid) == tablet_id_to_unique_id(cid) \in unique_id_to_segment_id_map

\* the indexed columns of the batch, in the order of the batch
RECURSIVE IndexedFrom(_)
IndexedFrom(i) ==
    IF i > Len(batch_columns) THEN <<>>
    ELSE IF HasIndex(batch_columns[i])
    THEN <<batch_columns[i]>> \o IndexedFrom(i + 1)
    ELSE IndexedFrom(i + 1)

\* a get_block that loads a batch
LoadStep ==
    /\ pc = "scan"
    /\ ~_eof
    /\ op' = "get_block"
    /\ pc' = "scan"

\* the load before this one, if the scan has made one
LastLoad == loaded[Len(loaded)]

\* the first row of block b in every column
BlockStart(b) == b * RowsPerBlock

RECURSIVE SeeksOf(_, _)
SeeksOf(cids, block_id) ==
    IF cids = <<>> THEN <<>>
    ELSE <<[cid |-> Head(cids), block_id |-> block_id]>>
             \o SeeksOf(Tail(cids), block_id)

\* C27 as stated: every successful seek_to_block sets _need_to_seek_block,
\* and the first get_block after it seeks the reader of every indexed column
\* of the batch to _next_block_id, each once, whatever _current_block_id is,
\* and clears the flag, which is set again only by a read of fewer than
\* RowsPerBlock rows.
C27_FirstGetBlockSeeks ==
    [][(/\ SeekReturns => _need_to_seek_block' = TRUE
        /\ (pc = "scan" /\ ~_eof /\ op = "seek_to_block"
              /\ op' = "get_block") =>
              /\ seek_calls' = SeeksOf(IndexedFrom(1), _next_block_id)
              /\ pc' = "scan" =>
                     _need_to_seek_block' = (batch'.size # RowsPerBlock))]_vars

\* C27, amended: every successful seek_to_block sets _need_to_seek_block, so
\* the first get_block after it calls the seek of the readers whatever
\* _current_block_id is: of every indexed column of the batch, each once, to
\* _next_block_id, clearing the flag, if no seek fails; if a seek fails, of
\* the indexed columns up to the failing one, and the flag stays set.
C27_FirstGetBlockSeeksUnlessFailing ==
    [][(/\ SeekReturns => _need_to_seek_block' = TRUE
        /\ (pc = "scan" /\ ~_eof /\ op = "seek_to_block"
              /\ op' = "get_block") =>
              LET all == SeeksOf(IndexedFrom(1), _next_block_id)
              IN  /\ seek_calls' # <<>> \/ all = <<>>
                  /\ seek_res' = OLAP_SUCCESS =>
                         /\ seek_calls' = all
                         /\ pc' = "scan" =>
                                _need_to_seek_block' =
                                    (batch'.size # RowsPerBlock)
                  /\ seek_res' # OLAP_SUCCESS =>
                         /\ Len(seek_calls') <= Len(all)
                         /\ seek_calls' = SubSeq(all, 1, Len(seek_calls'))
                         /\ _need_to_seek_block' = TRUE)]_vars

\* a second seek_to_block has positioned the scan on the block the readers
\* were left at by the first scan, which had read the block before it in
\* full, and the first get_block has sought columns 1 and 2 and read a block
C27_Witness ==
    /\ pc = "scan"
    /\ op = "get_block"
    /\ seeks_left = 0
    /\ seek_failures = 0
    /\ Len(loaded) = 1
    /\ LastLoad.size = RowsPerBlock
    /\ stats.blocks_load = 2
    /\ stats.raw_rows_read = 2 * RowsPerBlock
    /\ LastLoad.block > 0
    /\ batch_columns = <<4, 1, 2>>
    /\ seek_calls = <<[cid |-> 1, block_id |-> LastLoad.block],
                      [cid |-> 2, block_id |-> LastLoad.block]>>
    /\ _need_to_seek_block = FALSE

\* a get_block that calls _seek_to_block_directly
GetBlockStep == pc = "scan" /\ ~_eof /\ op' = "get_block"

\* _seek_to_block_directly returns at once
SeekNotNeeded == ~_need_to_seek_block /\ _next_block_id = _current_block_id

UnfilteredSeek ==
    /\ op' = "seek_to_block"
    /\ seeks_left' < seeks_left
    /\ _is_data_loaded'
    /\ _without_filter'

\* C28: a seek_to_block with ignore_filter set returns success at once, with
\* no disposition array, no pruning phase and no change to the statistics,
\* whatever an earlier filtered call had excluded; the scan that follows loads
\* its batches from the blocks of [first, min(last, block_count - 1)] in
\* ascending order, starting at first and skipping none, from all of them once
\* it reaches eof, and tags every batch RequiresRowFilter.
C28_UnfilteredScanReadsAll ==
    /\ [][UnfilteredSeek =>
              /\ pc' = "scan"
              /\ res' = OLAP_SUCCESS
              /\ _include_blocks' = NoArray
              /\ stats' = stats]_vars
    /\ [](Scanning /\ _without_filter /\ ~uninit_read =>
              LET end_block == Min(last_block, block_count - 1)
              IN  /\ _include_blocks = NoArray
                  /\ \A i \in DOMAIN loaded :
                         /\ loaded[i].block_status = DEL_PARTIAL_SATISFIED
                         /\ loaded[i].from \in first_block .. end_block
                         /\ i = 1 => loaded[i].from = first_block
                         /\ i > 1 => loaded[i].from \in
                                {loaded[i - 1].from, loaded[i - 1].from + 1}
                  /\ (pc = "scan" /\ _eof) =>
                         LoadedBlocks = first_block .. end_block)

\* a call of seek_to_block
SeekCall == op' = "seek_to_block" /\ seeks_left' < seeks_left

\* C29: the streams and readers are created at most once, and the flag says
\* whether they were: once it is set they are those of all the columns read.
\* A seek_to_block that finds the flag set creates nothing and keeps the
\* streams and readers; one that finds it clear and fails to build them
\* returns an error and leaves it clear; one that finds it clear and builds
\* them replaces whatever a failed call left by the streams of all columns
\* and by new readers, and sets the flag.
C29_MaterializedOnce ==
    /\ [](/\ creations <= 1
          /\ _is_data_loaded <=> creations = 1
          /\ _is_data_loaded =>
                 /\ _streams = used_columns
                 /\ DOMAIN _column_readers = used_columns)
    /\ [][SeekCall =>
              /\ _is_data_loaded =>
                     /\ _is_data_loaded'
                     /\ creations' = creations
                     /\ _streams' = _streams
                     /\ _column_readers' = _column_readers
              /\ (~_is_data_loaded /\ ~_is_data_loaded') =>
                     /\ res' # OLAP_SUCCESS
                     /\ pc' = "init"
                     /\ creations' = creations
              /\ (~_is_data_loaded /\ _is_data_loaded') =>
                     /\ creations' = creations + 1
                     /\ _streams' = used_columns
                     /\ _column_readers' = create_reader(used_columns)]_vars

\* the second seek_to_block of an engine has returned after a batch was read:
\* the streams and readers are those the first call created
C29_Witness ==
    /\ pc = "scan"
    /\ op = "seek_to_block"
    /\ res = OLAP_SUCCESS
    /\ seeks_left = 0
    /\ stats.blocks_load > 0
    /\ _is_data_loaded
    /\ creations = 1
    /\ _streams = used_columns
    /\ _column_readers[1] > 0

\* C31: whatever the arguments of a seek_to_block with filtering, the call
\* stays inside the segment: up to its return no memory outside the
\* disposition array is touched, the array has no cell for a block id >=
\* block_count, and the block loops of the three phases visit no block id >=
\* block_count.
C31_PruningInsideSegment ==
    op = "seek_to_block" =>
        /\ ~oob_access
        /\ _include_blocks # NoArray =>
               DOMAIN _include_blocks \subseteq 0 .. block_count - 1
        /\ pc \in BlockPhases \cup {"del_block"} => j < block_count

----------------------------------------------------------------------------
(* The delete phase on a handler whose conditions are fixed in advance:    *)
(* every condition applies to the segment and has its result on the zone   *)
(* maps of every block.                                                    *)

\* the conditions a handler may hold: on no column or on column 1, with what
\* del_eval returns for each column on each block
HandlerConditions ==
    UNION {[filter_version : {segment_version + 1},
            columns : {columns},
            del_ret : [0 .. RescanBlocks - 1 -> [columns -> Dispositions]]] :
           columns \in {{}, {1}}}

RECURSIVE Handlers(_)
Handlers(n) ==
    IF n = 0 THEN {<<>>}
    ELSE Handlers(n - 1)
         \cup {Append(h, c) : h \in {x \in Handlers(n - 1) : Len(x) = n - 1},
                              c \in HandlerConditions}

InitOrder ==
    /\ block_count = RescanBlocks
    /\ number_of_rows = (block_count - 1) * RowsPerBlock + 1
    /\ conditions = {}
    /\ load_bf_columns = {}
    /\ delete_status = DEL_PARTIAL_SATISFIED
    /\ delete_handler \in Handlers(MaxConds)
    /\ file_header = column_data_header
    /\ batch_limit = RowsPerBlock
    /\ InitEngine(1)
    /\ InitLocator

\* seek_to_block of the whole segment, with filtering
SeekToBlockOrder ==
    seek_to_block(0, block_count - 1, FALSE, TRUE, TRUE, "continue")

\* the loop of line 373 takes the next condition of the handler
PickDeleteCondOrder ==
    IF cond_index < Len(delete_handler)
    THEN pick_delete_row_groups_cond(TRUE,
             delete_handler[cond_index + 1].filter_version,
             delete_handler[cond_index + 1].columns)
    ELSE pick_delete_row_groups_cond(FALSE, 0, {})

\* del_eval returns what the condition holds for the block
PickDeleteBlockOrder ==
    /\ pc = "del_block"
    /\ pick_delete_row_groups_block(delete_handler[cond_index].del_ret[j])

NextOrder ==
    \/ SeekToBlockOrder
    \/ PickDeleteCondOrder
    \/ PickDeleteBlockOrder
    \/ PickColumn

SpecOrder == InitOrder /\ [][NextOrder]_vars

\* one pass of the loop of lines 378-426: block block_id under the condition
delete_block(condition, block_id, picked) ==
    IF picked.include_blocks[block_id] = DEL_SATISFIED
    THEN picked
    ELSE LET flags == del_eval_columns(condition.columns,
                                       condition.del_ret[block_id], 0, no_flags)
             status == del_disposition(condition.columns, flags,
                                       picked.include_blocks[block_id])
         IN  [include_blocks |->
                  [picked.include_blocks EXCEPT ![block_id] = status],
              remain_block |-> IF status = DEL_SATISFIED
                               THEN picked.remain_block - 1
                               ELSE picked.remain_block,
              rows_del_filtered |-> IF status = DEL_SATISFIED
                                    THEN picked.rows_del_filtered
                                             + filtered_rows(block_id)
                                    ELSE picked.rows_del_filtered]

\* the loop of lines 378-426 from block block_id on
RECURSIVE delete_blocks(_, _, _, _)
delete_blocks(condition, block_id, last, picked) ==
    IF block_id > last THEN picked
    ELSE delete_blocks(condition, block_id + 1, last,
                       delete_block(condition, block_id, picked))

\* the loop of lines 373-427 from the i-th condition on
RECURSIVE delete_conditions(_, _, _, _, _)
delete_conditions(handler, i, first, last, picked) ==
    IF i > Len(handler) THEN picked
    ELSE delete_conditions(handler, i + 1, first, last,
             IF delete_condition_applies(handler[i].filter_version)
             THEN delete_blocks(handler[i], first, last, picked)
             ELSE picked)

\* _init_include_blocks and _pick_delete_row_groups on the range
pick_delete_row_groups(handler, first, last) ==
    delete_conditions(handler, 1, first, last,
        [include_blocks |-> init_include_blocks(first, last - first + 1),
         remain_block |-> last - first + 1,
         rows_del_filtered |-> 0])

\* the orders in which n conditions may be taken
Orders(n) == {p \in [1 .. n -> 1 .. n] : \A a, b \in 1 .. n : p[a] = p[b] => a = b}

\* the handler with its conditions in the order p
Reordered(handler, p) == [i \in 1 .. Len(handler) |-> handler[p[i]]]

\* what a condition yields on a block: the disposition it gives an Include
\* block
OutcomeOn(condition, block_id) ==
    del_disposition(condition.columns,
                    del_eval_columns(condition.columns,
                                     condition.del_ret[block_id], 0, no_flags),
                    DEL_NOT_SATISFIED)

\* the strictest of the outcomes of the conditions on a block, Include when
\* there is no condition
Strictest(handler, block_id) ==
    LET outcomes == {OutcomeOn(handler[i], block_id) : i \in DOMAIN handler}
                        \cup {DEL_NOT_SATISFIED}
    IN  CHOOSE d \in outcomes :
            \A e \in outcomes : strictness(e) <= strictness(d)

\* _pick_delete_row_groups has returned to _pick_row_groups
DeletePhaseOver ==
    /\ op = "seek_to_block"
    /\ pc = "zone_col"
    /\ cond_index = Len(delete_handler)

\* C32: when the delete phase has gone through the conditions of the handler,
\* every block of the range has the strictest of the dispositions the
\* conditions yield on it, and the phase run on the conditions in any other
\* order ends with the same disposition array, the same _remain_block and the
\* same rows_del_filtered.
C32_DeleteOrderIrrelevant ==
    DeletePhaseOver =>
        /\ \A b \in first_block .. last_block :
               _include_blocks[b] = Strictest(delete_handler, b)
        /\ \A p \in Orders(Len(delete_handler)) :
               LET picked == pick_delete_row_groups(
                                 Reordered(delete_handler, p),
                                 first_block, last_block)
               IN  /\ picked.include_blocks = _include_blocks
                   /\ picked.remain_block = _remain_block
                   /\ picked.rows_del_filtered = stats.rows_del_filtered

\* two conditions whose outcomes differ on both blocks: PartialMatch then
\* NoMatch on block 0, NoMatch then FullMatch on block 1
C32_Witness ==
    /\ DeletePhaseOver
    /\ Len(delete_handler) = 2
    /\ OutcomeOn(delete_handler[1], 0) = DEL_PARTIAL_SATISFIED
    /\ OutcomeOn(delete_handler[2], 0) = DEL_NOT_SATISFIED
    /\ OutcomeOn(delete_handler[1], 1) = DEL_NOT_SATISFIED
    /\ OutcomeOn(delete_handler[2], 1) = DEL_SATISFIED
    /\ _include_blocks[0] = DEL_PARTIAL_SATISFIED
    /\ _include_blocks[1] = DEL_SATISFIED
    /\ _remain_block = 1
    /\ stats.rows_del_filtered = 1

\* a pass of the block loop under a condition that has columns, none of them
\* in the segment
AbsentColumnsStep ==
    /\ DeleteBlockStep
    /\ InRange
    /\ del_columns # {}
    /\ evaluated_columns(del_columns) = {}

\* C33: a delete condition that has columns, none of which has a
\* segment-local mapping, calls del_eval on no zone map and excludes no block:
\* the block it is applied to does not turn Excluded, and _remain_block and
\* rows_del_filtered stay as they are.
C33_AbsentColumnsNonDeciding ==
    [][AbsentColumnsStep =>
          /\ del_flags'.del_evals = {}
          /\ _include_blocks'[j] # DEL_SATISFIED
          /\ _remain_block' = _remain_block
          /\ stats'.rows_del_filtered = stats.rows_del_filtered]_vars

----------------------------------------------------------------------------
(* The driver keeps calling get_block while a scan is going on.            *)

\* where a scan stands
position == <<pc, _eof, _next_block_id>>

\* one scan of a segment with a delete condition; the two flags the
\* constructor does not initialize hold whatever the memory held
InitFair ==
    /\ block_count = RescanBlocks
    /\ number_of_rows = (block_count - 1) * RowsPerBlock + 1
    /\ conditions = {}
    /\ load_bf_columns = {}
    /\ delete_status = DEL_PARTIAL_SATISFIED
    /\ delete_handler = <<>>
    /\ file_header = column_data_header
    /\ batch_limit \in {RowsPerBlock - 1, RowsPerBlock}
    /\ InitEngineHolding(1, <<1>>, BOOLEAN)
    /\ InitLocator

\* seek_to_block of any range, with and without filtering
SeekToBlockFair ==
    \E first \in 0 .. block_count, last \in 0 .. block_count,
       without \in BOOLEAN :
        seek_to_block(first, last, without, TRUE, TRUE, "continue")

NextFair ==
    \/ SeekToBlockFair
    \/ PickDeleteCondOne
    \/ PickDeleteBlockReaders
    \/ PickColumn
    \/ GetBlock

SpecFair == InitFair /\ [][NextFair]_vars /\ WF_position(GetBlock)

\* a get_block that loaded a batch and returned OLAP_SUCCESS
LoadReturns ==
    /\ pc = "scan"
    /\ ~_eof
    /\ op' = "get_block"
    /\ pc' = "scan"

\* C34: a scan ends. Every get_block that loads a batch moves _next_block_id
\* forward and sets eof exactly when it passes the clamped end block, and
\* reports both; during a scan the end block is min(last, block_count - 1),
\* eof stands exactly when _next_block_id is behind it, and no more batches
\* were loaded than the range [first, end block] has blocks; and a scan whose
\* driver keeps calling get_block reaches eof, unless a load fails or another
\* seek_to_block takes over.
C34_ScanTerminates ==
    /\ [][LoadReturns =>
              /\ _next_block_id' > _next_block_id
              /\ _eof' = (_next_block_id' > _end_block)
              /\ next_block_out' = _next_block_id'
              /\ eof_out' = _eof']_vars
    /\ [](Scanning =>
              /\ _end_block = Min(last_block, block_count - 1)
              /\ _eof = (_next_block_id > _end_block)
              /\ Len(loaded) <= Max(0, _end_block - first_block + 1))
    /\ (pc = "scan") ~> (_eof \/ pc # "scan")

\* a scan of a whole segment of more than one block has reached eof with a
\* batch loaded for each block
C34_Witness ==
    /\ pc = "scan"
    /\ op = "get_block"
    /\ _eof
    /\ eof_out
    /\ first_block = 0
    /\ last_block = block_count - 1
    /\ block_count > 1
    /\ Len(loaded) = block_count
    /\ _next_block_id = block_count

\* engine e holds nothing of an index: no stream was read, no reader made,
\* no cache handle taken
NothingLoaded(e) ==
    /\ _cache_handle[e] = <<>>
    /\ _indices[e] = <<>>
    /\ _bloom_filters[e] = <<>>
    /\ index_loads[e] = <<>>
    /\ stream_index[e] = 0

\* the statuses with which init rejects a header; a file that does not open
\* or cannot be mapped fails with OLAP_ERR_OTHER or OLAP_ERR_MALLOC_ERROR
\* before the header is looked at
FormatError == {OLAP_ERR_FILE_FORMAT_ERROR, OLAP_ERR_PARSE_PROTOBUF_ERROR}

\* no build has a case for the compression kind of the header
UnknownKind == file_header.compress_kind \notin decompressors(TRUE)

\* the header has the version after the current one and nothing init rejects
NewerVersionOnly ==
    /\ file_header.magic_string = "COLUMN DATA"
    /\ file_header.version > CURRENT_COLUMN_DATA_VERSION
    /\ file_header.compress_kind = COMPRESS_LZ4

\* C35: a call of init on a file that opens fails with a format error and
\* leaves the engine without any index, index reader or cache handle when the
\* magic string of the header is not "COLUMN DATA" (the status is
\* OLAP_ERR_FILE_FORMAT_ERROR) or when its compression kind is unknown and
\* the file could be mapped where it is to be (the status is
\* OLAP_ERR_PARSE_PROTOBUF_ERROR), and the cache is left as it was;
\* on a header that is only of a newer version the version check logs its
\* warning and returns OLAP_SUCCESS, and init goes on to _load_index, whose
\* status it returns.  No engine ever loads an index of a rejected header.
C35_HeaderChecks ==
    /\ [][\A e \in Engines, using_cache, mapped, with_lzo, shared_buffer
                                \in BOOLEAN, stream \in LoadStatus :
              init(e, using_cache, OLAP_SUCCESS, mapped, with_lzo,
                   shared_buffer, stream) =>
                  /\ file_header.magic_string # "COLUMN DATA" =>
                         /\ load_res'[e] = OLAP_ERR_FILE_FORMAT_ERROR
                         /\ e_pc'[e] = "failed"
                         /\ NothingLoaded(e)'
                         /\ lru_cache' = lru_cache
                  /\ (file_header.magic_string = "COLUMN DATA" /\ UnknownKind
                          /\ mapped) =>
                         /\ load_res'[e] = OLAP_ERR_PARSE_PROTOBUF_ERROR
                         /\ e_pc'[e] = "failed"
                         /\ NothingLoaded(e)'
                         /\ lru_cache' = lru_cache
                  /\ (NewerVersionOnly /\ mapped /\ shared_buffer) =>
                         /\ check_file_version(file_header).higher_version
                         /\ check_file_version(file_header).res = OLAP_SUCCESS
                         /\ use_cache'[e] = using_cache
                         /\ Len(_cache_handle'[e])
                                = get_included_row_index_stream_num
                         /\ IF stream = OLAP_SUCCESS
                            THEN /\ e_pc'[e] = "lookup"
                                 /\ stream_index'[e] = next_stream(1)
                            ELSE load_res'[e] = stream]_vars
    /\ []((file_header.magic_string # "COLUMN DATA" \/ UnknownKind) =>
              /\ lru_cache = <<>>
              /\ index_readers = <<>>
              /\ \A e \in Engines :
                     /\ e_pc[e] \in {"constructed", "failed"}
                     /\ load_res[e] # OLAP_SUCCESS
                     /\ NothingLoaded(e)
                     /\ load_res[e] \in FormatError \cup {NULL, OLAP_ERR_OTHER,
                                                          OLAP_ERR_MALLOC_ERROR})

\* the header has a newer version: one engine's init has loaded every index
\* through the cache and holds its handles, the other's is reading a stream
C35_Witness ==
    /\ NewerVersionOnly
    /\ \E e1, e2 \in Engines :
           /\ e_pc[e1] = "loaded"
           /\ load_res[e1] = OLAP_SUCCESS
           /\ is_using_cache[e1]
           /\ _cache_handle[e1] # <<>>
           /\ e_pc[e2] = "read"

====
